---- MODULE Spec2Model ----
(***************************************************************************)
(* Model of the flow-orchestration core of prefect-poc: the FlowSubmission *)
(* helper (submit / wait) and the main_etl and sub_etl orchestrator flows  *)
(* of flows/prefect_flow-worker-flow-v3.py ("v3"), the free functions      *)
(* trigger_subflow / wait_for_flow_runs and the same two flows of          *)
(* flows/prefect_flow-worker-flow-v2.py ("v2"), and the job backend.       *)
(*                                                                         *)
(* Every `await` of the orchestrators is one step of the model; the code   *)
(* between two awaits runs without interleaving (asyncio), so it is folded *)
(* into the step of the await that precedes it.                            *)
(***************************************************************************)
EXTENDS Naturals, Sequences, FiniteSets, TLC

\* ------------------------------------------------------------------ bounds

\* Number of table jobs sub_etl fans out (range(20) in the source).
NumTables == 2

\* ------------------------------------------------------------- vocabulary

\* Terminal state types of a flow run (what state.is_final() accepts).
FinalStates == {"Completed", "Failed", "Crashed", "Cancelled"}

\* is_completed(): what IsFinal would be if only a Completed run counted as ended.
IsCompleted(s) == s = "Completed"

\* flow_run.state.is_final()
IsFinal(s) == s \in FinalStates

\* The two variants of the orchestration code that run deployments.
Variants == {"v3", "v2"}

\* flows/prefect_flow.py, whose sub_etl submits tasks and reads their futures.
Tasks == "tasks"

\* The FlowSubmission objects created by main_etl and sub_etl (v3).  In v2 the
\* same names stand for the locals that hold the run ids: pre_etl_run_id,
\* sub_etl_run_id, final_etl_run_id, flow_run_ids and the two cleanup ids.
\* "batch" is the object of the flow_submitter usage example, driven by a caller.
Batches == {"pre_etl", "sub_etl", "final_etl", "table_etl", "cleanup1", "cleanup2",
            "batch"}

\* FlowSubmission.deployment_path of each object (the flow_submitter argument).
deployment_path ==
  [b \in Batches |->
     CASE b = "pre_etl"   -> "pre-etl-job/pre-etl-deployment"
       [] b = "sub_etl"   -> "sub-etl-job/sub-etl-deployment"
       [] b = "final_etl" -> "final-etl-job/final-etl-deployment"
       [] b = "table_etl" -> "process-table-etl/process-table-etl-deployment"
       [] b = "cleanup1"  -> "cleanup-flow-1/cleanup-flow-1-deployment"
       [] b = "cleanup2"  -> "cleanup-flow-2/cleanup-flow-2-deployment"
       [] b = "batch"     -> "etl-parent/etl-child-deployment"]

\* The tasks flows/prefect_flow.py submits where the other files run deployments.
task_name ==
  [b \in Batches |->
     CASE b = "table_etl" -> "sql-query-task"
       [] b = "cleanup1"  -> "cleanup-task-1"
       [] b = "cleanup2"  -> "cleanup-task-2"
       [] OTHER           -> deployment_path[b]]

\* The flows of control: the main_etl flow run, the sub_etl flow run, and a
\* caller that uses one FlowSubmission object directly.
Procs == {"main", "sub", "caller"}

\* The exceptions read_flow_run can raise.
QueryErrors == {"TransientQueryError", "UnknownJobError"}

\* The one a run of the pipeline meets: it polls only ids the backend issued.
PipelineQueryErrors == {"TransientQueryError"}

\* No value (Python's None / nothing returned yet).
None == "None"

\* The empty dict.
EmptyDict == [i \in {} |-> "Completed"]

\* The elements of a list.
Range(s) == {s[i] : i \in DOMAIN s}

VARIABLES
  variant,     \* which file's code runs
  jobState,    \* backend: state name of every flow run, indexed by run id
  jobTarget,   \* backend: deployment each flow run was created from
  run_ids,     \* FlowSubmission.run_ids of each object
  results,     \* FlowSubmission.results of each object
  pc,          \* position of each flow of control
  wpc,         \* position inside the wait() a flow of control is executing
  pending,     \* wait's local `pending`
  scan,        \* ids of list(pending) the current for loop has not polled yet
  completed,   \* wait's local `completed`
  raised,      \* the exception that escaped each flow of control, if any
  returned,    \* the dict the last wait() of each flow of control returned
  status,      \* "status" of the dict main_etl returned, None before
  observed,    \* the run ids read_flow_run has answered with a final state
  rerun,       \* backend: the flow runs that were run again after a final state
  calls,       \* caller: number of wait() calls made so far
  polls,       \* caller: read_flow_run calls issued by the current wait() call
  sleeps,      \* caller: asyncio.sleep calls made by the current wait() call
  called_with, \* caller: the run ids in run_ids when the current wait() was called
  cached,      \* caller: every run id had a result when the current wait() was called
  settled,     \* caller: every pending run was Completed when the current scan began
  gather,      \* the submit() coroutines started concurrently on the caller's object
  limits,      \* backend: the concurrency limits, tag |-> maximum
  taskState,   \* backend: state of the sql_query task run a table flow run called
  retried,     \* backend: how often the task run of a table flow run was retried
  deployed,    \* backend: the names of the deployments registered, in order
  setup,       \* the run of a setup script: script, position, what it reported
  pools,       \* backend: the names of the work pools
  server,      \* the Prefect server and the run of PrefectServerSetup.setup
  manager,     \* the worker manager of start_workers.py: position and locals
  popen        \* the worker processes started by subprocess.Popen, by pid

vars == <<variant, jobState, jobTarget, run_ids, results, pc, wpc, pending, scan,
          completed, raised, returned, status, observed, rerun, calls, polls, sleeps,
          called_with, cached, settled, gather, limits, taskState, retried,
          deployed, setup, pools, server, manager, popen>>

backendVars == <<jobState, jobTarget, rerun>>
callVars == <<calls, polls, sleeps, called_with, cached, settled, gather>>
waitVars == <<wpc, pending, scan, completed>>
opsVars == <<pools, server, manager, popen>>
limitVars == <<limits, taskState, retried, deployed, setup, opsVars>>

\* No setup script has run.
NoSetup == [script |-> None, at |-> "idle", report |-> None, cause |-> None,
            runs |-> 0, before |-> <<>>, listed |-> <<>>]

\* PrefectServerSetup.setup has not been called; the server is not running.
NoServer == [state |-> "down", at |-> "idle", start_server_native |-> FALSE,
             server_process |-> None, elapsed |-> 0, reachable |-> FALSE,
             create_calls |-> {}, finished |-> {}, pool_returned |-> FALSE,
             limit_returned |-> FALSE, limit_existed |-> FALSE, all_good |-> TRUE,
             confirmed |-> {}, returned |-> FALSE]

\* start_workers.py has not been started.
NoManager == [at |-> "off", workers |-> 0, pool |-> None, i |-> 0,
              processes |-> <<>>, process |-> 0, interrupted |-> FALSE]

\* Ids of the flow runs the backend knows.
JobIds == DOMAIN jobState

\* What a submission of batch b runs.
Target(b) == IF variant = Tasks THEN task_name[b] ELSE deployment_path[b]

\* The runs created by the submissions of batch b.
JobsOf(b) == {j \in JobIds : jobTarget[j] = Target(b)}

\* Nothing submitted, every FlowSubmission as __init__ leaves it.
Fresh ==
  /\ jobState = <<>>
  /\ jobTarget = <<>>
  /\ rerun = {}
  /\ run_ids = [b \in Batches |-> <<>>]
  /\ results = [b \in Batches |-> EmptyDict]
  /\ wpc = [p \in Procs |-> "enter"]
  /\ pending = [p \in Procs |-> {}]
  /\ scan = [p \in Procs |-> {}]
  /\ completed = [p \in Procs |-> {}]
  /\ raised = [p \in Procs |-> None]
  /\ returned = [p \in Procs |-> None]
  /\ status = None
  /\ observed = {}
  /\ calls = 0
  /\ polls = 0
  /\ sleeps = 0
  /\ called_with = {}
  /\ cached = FALSE
  /\ settled = FALSE
  /\ gather = <<>>
  /\ limits = <<>>
  /\ taskState = <<>>
  /\ retried = <<>>
  /\ deployed = <<>>
  /\ setup = NoSetup
  /\ pools = {}
  /\ server = NoServer
  /\ manager = NoManager
  /\ popen = <<>>

\* main_etl (v3) is about to run; sub_etl runs once its flow run is picked up.
Init ==
  /\ Fresh
  /\ variant = "v3"
  /\ pc = [p \in Procs |-> IF p = "main" THEN "submit_pre_etl" ELSE "not_started"]


\* ------------------------------------------------------- program positions

\* The FlowSubmission object the statement at a position operates on.
BatchAt(pos) ==
  CASE pos \in {"submit_pre_etl", "wait_pre_etl"}       -> "pre_etl"
    [] pos \in {"submit_sub_etl", "wait_sub_etl"}       -> "sub_etl"
    [] pos \in {"submit_final_etl", "wait_final_etl"}   -> "final_etl"
    [] pos \in {"submit_table_etl", "wait_table_etl", "result_table_etl"} -> "table_etl"
    [] pos \in {"submit_cleanup1", "wait_cleanup1", "result_cleanup1"}    -> "cleanup1"
    [] pos \in {"submit_cleanup2", "wait_cleanup2", "result_cleanup2"}    -> "cleanup2"
    [] pos \in {"submit_batch", "wait_batch"}           -> "batch"

\* The run ids the wait at a position waits for: self.run_ids of its object
\* (v3), or the list handed to wait_for_flow_runs (v2), which for phase 1 of
\* main_etl and for the cleanups of sub_etl holds the ids of two submissions.
WaitIds(pos) ==
  CASE pos = "wait_phase1"   -> Range(run_ids["pre_etl"]) \cup Range(run_ids["sub_etl"])
    [] pos = "wait_cleanups" -> Range(run_ids["cleanup1"]) \cup Range(run_ids["cleanup2"])
    [] OTHER                 -> Range(run_ids[BatchAt(pos)])

SubmitPositions == {"submit_pre_etl", "submit_sub_etl", "submit_final_etl",
                    "submit_table_etl", "submit_cleanup1", "submit_cleanup2",
                    "submit_batch"}

WaitPositions == {"wait_pre_etl", "wait_sub_etl", "wait_final_etl",
                  "wait_table_etl", "wait_cleanup1", "wait_cleanup2", "wait_batch",
                  "wait_phase1", "wait_cleanups"}

\* The positions of flows/prefect_flow.py at which a future's result is read.
ResultPositions == {"result_table_etl", "result_cleanup1", "result_cleanup2"}

\* Mutant of main_etl: only pre_etl is waited for in phase 1.
main_etl_skips_sub(pos) ==
  CASE pos = "submit_pre_etl"   -> "submit_sub_etl"
    [] pos = "submit_sub_etl"   -> "wait_pre_etl"
    [] pos = "wait_pre_etl"     -> "submit_final_etl"
    [] pos = "submit_final_etl" -> "wait_final_etl"
    [] pos = "wait_final_etl"   -> "return"

\* Mutant of main_etl: pre_etl is waited for before sub_etl is submitted.
main_etl_wait_first(pos) ==
  CASE pos = "submit_pre_etl"   -> "wait_pre_etl"
    [] pos = "wait_pre_etl"     -> "submit_sub_etl"
    [] pos = "submit_sub_etl"   -> "wait_sub_etl"
    [] pos = "wait_sub_etl"     -> "submit_final_etl"
    [] pos = "submit_final_etl" -> "wait_final_etl"
    [] pos = "wait_final_etl"   -> "return"

\* Statement order of main_etl (v3): submit pre_etl, submit sub_etl, wait
\* pre_etl, wait sub_etl, submit final_etl, wait final_etl, return.
main_etl(pos) ==
  CASE pos = "submit_pre_etl"   -> "submit_sub_etl"
    [] pos = "submit_sub_etl"   -> "wait_pre_etl"
    [] pos = "wait_pre_etl"     -> "wait_sub_etl"
    [] pos = "wait_sub_etl"     -> "submit_final_etl"
    [] pos = "submit_final_etl" -> "wait_final_etl"
    [] pos = "wait_final_etl"   -> "return"

\* Statement order of main_etl (v2): trigger pre_etl, trigger sub_etl, one
\* wait_for_flow_runs over both ids, trigger final_etl, wait for it, return.
main_etl_v2(pos) ==
  CASE pos = "submit_pre_etl"   -> "submit_sub_etl"
    [] pos = "submit_sub_etl"   -> "wait_phase1"
    [] pos = "wait_phase1"      -> "submit_final_etl"
    [] pos = "submit_final_etl" -> "wait_final_etl"
    [] pos = "wait_final_etl"   -> "return"

\* Mutant of sub_etl: the cleanups are submitted right after the table runs,
\* and table_etl.wait() comes last.
sub_etl_cleanup_first(pos, submitted) ==
  CASE pos = "submit_table_etl" ->
         IF submitted < NumTables THEN "submit_table_etl" ELSE "submit_cleanup1"
    [] pos = "submit_cleanup1"  -> "submit_cleanup2"
    [] pos = "submit_cleanup2"  -> "wait_cleanup1"
    [] pos = "wait_cleanup1"    -> "wait_cleanup2"
    [] pos = "wait_cleanup2"    -> "wait_table_etl"
    [] pos = "wait_table_etl"   -> "return"

\* Mutant of sub_etl: each table run is waited for before the next one is
\* submitted.
sub_etl_one_by_one(pos, submitted) ==
  CASE pos = "submit_table_etl" -> "wait_table_etl"
    [] pos = "wait_table_etl"   ->
         IF submitted - 1 < NumTables THEN "submit_table_etl" ELSE "submit_cleanup1"
    [] pos = "submit_cleanup1"  -> "submit_cleanup2"
    [] pos = "submit_cleanup2"  -> "wait_cleanup1"
    [] pos = "wait_cleanup1"    -> "wait_cleanup2"
    [] pos = "wait_cleanup2"    -> "return"

\* Statement order of sub_etl (v3): the table_etl.submit loop, wait table_etl,
\* submit cleanup1, submit cleanup2, wait cleanup1, wait cleanup2, return.
\* `submitted` is len(table_etl.run_ids) after the submit that just ran.
sub_etl(pos, submitted) ==
  CASE pos = "submit_table_etl" ->
         IF submitted < NumTables THEN "submit_table_etl" ELSE "wait_table_etl"
    [] pos = "wait_table_etl"   -> "submit_cleanup1"
    [] pos = "submit_cleanup1"  -> "submit_cleanup2"
    [] pos = "submit_cleanup2"  -> "wait_cleanup1"
    [] pos = "wait_cleanup1"    -> "wait_cleanup2"
    [] pos = "wait_cleanup2"    -> "return"

\* Statement order of sub_etl (v2): trigger_multiple_subflows' loop, wait for
\* the table runs, trigger both cleanups, one wait over both, return.
sub_etl_v2(pos, submitted) ==
  CASE pos = "submit_table_etl" ->
         IF submitted < NumTables THEN "submit_table_etl" ELSE "wait_table_etl"
    [] pos = "wait_table_etl"   -> "submit_cleanup1"
    [] pos = "submit_cleanup1"  -> "submit_cleanup2"
    [] pos = "submit_cleanup2"  -> "wait_cleanups"
    [] pos = "wait_cleanups"    -> "return"

\* Statement order of sub_etl (flows/prefect_flow.py): the sql_query.submit
\* loop, the list of future.result(), cleanup1.submit(), cleanup2.submit(),
\* cleanup1_future.result(), cleanup2_future.result(), return.
sub_etl_tasks(pos, submitted) ==
  CASE pos = "submit_table_etl" ->
         IF submitted < NumTables THEN "submit_table_etl" ELSE "result_table_etl"
    [] pos = "result_table_etl" -> "submit_cleanup1"
    [] pos = "submit_cleanup1"  -> "submit_cleanup2"
    [] pos = "submit_cleanup2"  -> "result_cleanup1"
    [] pos = "result_cleanup1"  -> "result_cleanup2"
    [] pos = "result_cleanup2"  -> "return"

\* The position flow of control p reaches after the statement at its current one.
After(p) ==
  CASE p = "main" ->
         IF variant = "v3" THEN main_etl(pc[p]) ELSE main_etl_v2(pc[p])
    [] p = "sub" ->
         IF variant = "v3" THEN sub_etl(pc[p], Len(run_ids["table_etl"]) + 1)
         ELSE IF variant = "v2"
              THEN sub_etl_v2(pc[p], Len(run_ids["table_etl"]) + 1)
              ELSE sub_etl_tasks(pc[p], Len(run_ids["table_etl"]) + 1)
    [] p = "caller" -> "idle"

\* The flow run that executes sub_etl (created by main_etl's sub_etl.submit()).
SubJob == CHOOSE j \in JobsOf("sub_etl") : TRUE

\* Mutant of FlowEnds: the exception is noted and swallowed (a bare
\* try/except around the call), and the flow goes on with its next statement.
FlowGoesOn(p, pos, exc, final) ==
  /\ pc' = [pc EXCEPT ![p] = IF pos = "raised" THEN After(p) ELSE pos]
  /\ raised' = [raised EXCEPT ![p] = exc]
  /\ wpc' = [wpc EXCEPT ![p] = "enter"]
  /\ pending' = [pending EXCEPT ![p] = {}]
  /\ scan' = [scan EXCEPT ![p] = {}]
  /\ completed' = [completed EXCEPT ![p] = {}]
  /\ UNCHANGED <<variant, jobState, jobTarget, rerun>>

\* A flow of control ends: its wait locals are gone; the backend settles the
\* flow run that executed it (sub_etl) to `final`.
FlowEnds(p, pos, exc, final) ==
  /\ pc' = [pc EXCEPT ![p] = pos]
  /\ raised' = [raised EXCEPT ![p] = exc]
  /\ wpc' = [wpc EXCEPT ![p] = "enter"]
  /\ pending' = [pending EXCEPT ![p] = {}]
  /\ scan' = [scan EXCEPT ![p] = {}]
  /\ completed' = [completed EXCEPT ![p] = {}]
  /\ jobState' = IF p = "sub" THEN [jobState EXCEPT ![SubJob] = final] ELSE jobState
  /\ UNCHANGED <<variant, jobTarget, rerun>>

\* ------------------------------------------------- FlowSubmission.submit

\* run_deployment(name=deployment_path, timeout=0) returned a new flow run:
\* the backend holds it as Pending, and its id is appended to run_ids.
submit(p) ==
  /\ pc[p] \in SubmitPositions
  /\ LET b == BatchAt(pc[p])
         id == Len(jobState) + 1
     IN /\ jobState' = Append(jobState, "Pending")
        /\ jobTarget' = Append(jobTarget, Target(b))
        /\ run_ids' = [run_ids EXCEPT ![b] = Append(@, id)]
  /\ pc' = [pc EXCEPT ![p] = After(p)]
  /\ UNCHANGED <<variant, rerun, results, waitVars, raised, returned, status, observed>>

\* run_deployment raised: nothing is appended, and the exception leaves the
\* orchestrator flow (neither main_etl nor sub_etl catches anything).
submit_raises(p) ==
  /\ pc[p] \in SubmitPositions
  /\ FlowEnds(p, "raised", "SubmissionError", "Failed")
  /\ UNCHANGED <<run_ids, results, returned, status, observed>>

\* ------------------ FlowSubmission.wait (v3) / wait_for_flow_runs (v2)

\* What wait returns when it has nothing to wait for: `return {}` in v3; v2's
\* wait_for_flow_runs falls through its while loop and returns None.
NothingToWait == IF variant = "v3" THEN EmptyDict ELSE None

\* Mutant of wait_enter: the test for an empty run_ids is left out, and a scan
\* is set up whatever the ids are.
wait_enter_scans(p) ==
  /\ pc[p] \in WaitPositions
  /\ wpc[p] = "enter"
  /\ pending' = [pending EXCEPT ![p] = WaitIds(pc[p])]
  /\ scan' = [scan EXCEPT ![p] = WaitIds(pc[p])]
  /\ completed' = [completed EXCEPT ![p] = {}]
  /\ wpc' = [wpc EXCEPT ![p] = "poll"]
  /\ UNCHANGED <<pc, returned>>
  /\ UNCHANGED <<variant, backendVars, run_ids, results, raised, status, observed>>

\* v3: `if not self.run_ids: return {}`.  Otherwise, and always in v2,
\* pending = set(ids); the first scan is over list(pending) with completed = [].
\* v2's `while pending_ids` ends at once on an empty list.
wait_enter(p) ==
  /\ pc[p] \in WaitPositions
  /\ wpc[p] = "enter"
  /\ LET ids == WaitIds(pc[p])
     IN IF ids = {}
        THEN /\ pc' = [pc EXCEPT ![p] = After(p)]
             /\ returned' = [returned EXCEPT ![p] = NothingToWait]
             /\ UNCHANGED waitVars
        ELSE /\ pending' = [pending EXCEPT ![p] = ids]
             /\ scan' = [scan EXCEPT ![p] = ids]
             /\ completed' = [completed EXCEPT ![p] = {}]
             /\ wpc' = [wpc EXCEPT ![p] = "poll"]
             /\ UNCHANGED <<pc, returned>>
  /\ UNCHANGED <<variant, backendVars, run_ids, results, raised, status, observed>>

\* Mutant of Record: the state read is recorded whether it is final or not.
RecordAny(res, run_id, name) == (run_id :> name) @@ res

\* Mutant of Record: only a Completed run is recorded (is_completed() where the
\* code tests is_final()).
RecordCompletedOnly(res, run_id, name) ==
  IF name = "Completed" THEN (run_id :> name) @@ res ELSE res

\* What one iteration of the for loop does with the state name it read (v3):
\* a final state is recorded in self.results, anything else is left alone.
Record(res, run_id, name) ==
  IF IsFinal(name) THEN (run_id :> name) @@ res ELSE res

\* Mutant of Completed: every polled id counts as done (the is_final() test
\* is forgotten).
CompletedAny(done, run_id, name) == done \cup {run_id}

\* Mutant of Completed: a run counts as done only on the scan after the one
\* that first saw it final.
CompletedLate(done, run_id, name) ==
  IF IsFinal(name) /\ run_id \in observed THEN done \cup {run_id} ELSE done

\* The ids found final so far in this scan: v3's `completed` list after the
\* iteration (v2 removes the id from pending_ids at once, to the same effect).
Completed(done, run_id, name) ==
  IF IsFinal(name) THEN done \cup {run_id} ELSE done

\* Mutant of wait_poll: a run found Failed is submitted again by the wait, and
\* the new run is waited for in its place.
wait_poll_redrives(p, run_id) ==
  /\ pc[p] \in WaitPositions
  /\ wpc[p] = "poll"
  /\ run_id \in scan[p]
  /\ jobState[run_id] = "Failed"
  /\ LET id == Len(jobState) + 1
     IN /\ jobState' = Append(jobState, "Pending")
        /\ jobTarget' = Append(jobTarget, jobTarget[run_id])
        /\ run_ids' = [run_ids EXCEPT ![BatchAt(pc[p])] = Append(@, id)]
        /\ pending' = [pending EXCEPT ![p] = (@ \ {run_id}) \cup {id}]
        /\ scan' = [scan EXCEPT ![p] = (@ \ {run_id}) \cup {id}]
  /\ UNCHANGED <<variant, rerun, results, pc, wpc, completed, raised, returned,
                 status, observed>>

\* Mutant of wait_poll: `if pending: await asyncio.sleep(poll_interval)` is
\* left out, and a scan that leaves ids pending is followed by the next at once.
wait_poll_spins(p, run_id) ==
  /\ pc[p] \in WaitPositions
  /\ wpc[p] = "poll"
  /\ run_id \in scan[p]
  /\ LET name == jobState[run_id]
         done == Completed(completed[p], run_id, name)
         rest == scan[p] \ {run_id}
         left == pending[p] \ done
         res  == IF variant = "v3"
                 THEN [results EXCEPT ![BatchAt(pc[p])] = Record(@, run_id, name)]
                 ELSE results
     IN /\ results' = res
        /\ observed' = IF name \in FinalStates THEN observed \cup {run_id} ELSE observed
        /\ IF rest # {}
           THEN /\ scan' = [scan EXCEPT ![p] = rest]
                /\ completed' = [completed EXCEPT ![p] = done]
                /\ UNCHANGED <<pc, wpc, pending, returned>>
           ELSE IF left # {}
           THEN /\ pending' = [pending EXCEPT ![p] = left]
                /\ scan' = [scan EXCEPT ![p] = left]
                /\ completed' = [completed EXCEPT ![p] = {}]
                /\ UNCHANGED <<pc, wpc, returned>>
           ELSE /\ pending' = [pending EXCEPT ![p] = {}]
                /\ scan' = [scan EXCEPT ![p] = {}]
                /\ completed' = [completed EXCEPT ![p] = {}]
                /\ wpc' = [wpc EXCEPT ![p] = "enter"]
                /\ pc' = [pc EXCEPT ![p] = After(p)]
                /\ returned' = [returned EXCEPT ![p] =
                      IF variant = "v3" THEN res[BatchAt(pc[p])] ELSE None]
  /\ UNCHANGED <<variant, backendVars, run_ids, raised, status>>

\* One iteration of `for run_id in list(pending)`: read_flow_run(run_id)
\* answered with the run's current state.  After the last iteration of a scan
\* the ids found final are out of pending; wait returns (self.results in v3,
\* None in v2) when pending is empty and sleeps otherwise.
wait_poll(p, run_id) ==
  /\ pc[p] \in WaitPositions
  /\ wpc[p] = "poll"
  /\ run_id \in scan[p]
  /\ LET name == jobState[run_id]
         done == Completed(completed[p], run_id, name)
         rest == scan[p] \ {run_id}
         left == pending[p] \ done
         res  == IF variant = "v3"
                 THEN [results EXCEPT ![BatchAt(pc[p])] = Record(@, run_id, name)]
                 ELSE results
     IN /\ results' = res
        /\ observed' = IF name \in FinalStates THEN observed \cup {run_id} ELSE observed
        /\ IF rest # {}
           THEN /\ scan' = [scan EXCEPT ![p] = rest]
                /\ completed' = [completed EXCEPT ![p] = done]
                /\ UNCHANGED <<pc, wpc, pending, returned>>
           ELSE IF left # {}
           THEN /\ pending' = [pending EXCEPT ![p] = left]
                /\ scan' = [scan EXCEPT ![p] = {}]
                /\ completed' = [completed EXCEPT ![p] = {}]
                /\ wpc' = [wpc EXCEPT ![p] = "sleep"]
                /\ UNCHANGED <<pc, returned>>
           ELSE /\ pending' = [pending EXCEPT ![p] = {}]
                /\ scan' = [scan EXCEPT ![p] = {}]
                /\ completed' = [completed EXCEPT ![p] = {}]
                /\ wpc' = [wpc EXCEPT ![p] = "enter"]
                /\ pc' = [pc EXCEPT ![p] = After(p)]
                /\ returned' = [returned EXCEPT ![p] =
                      IF variant = "v3" THEN res[BatchAt(pc[p])] ELSE None]
  /\ UNCHANGED <<variant, backendVars, run_ids, raised, status>>

\* Mutant of wait_poll_raises: the exception is caught and noted, the id stays
\* pending and the scan goes on with the next id.
wait_poll_retries(p, run_id, exc) ==
  /\ pc[p] \in WaitPositions
  /\ wpc[p] = "poll"
  /\ run_id \in scan[p]
  /\ exc \in QueryErrors
  /\ raised' = [raised EXCEPT ![p] = exc]
  /\ IF scan[p] = {run_id}
     THEN wpc' = [wpc EXCEPT ![p] = "sleep"] /\ scan' = [scan EXCEPT ![p] = {}]
     ELSE scan' = [scan EXCEPT ![p] = @ \ {run_id}] /\ UNCHANGED wpc
  /\ UNCHANGED <<variant, backendVars, pc, pending, completed, run_ids, results,
                 returned, status, observed>>

\* read_flow_run raised (the query failed, or the id is unknown): neither wait
\* nor wait_for_flow_runs has a handler, so the exception leaves it and the
\* flow that called it.
wait_poll_raises(p, run_id, exc) ==
  /\ pc[p] \in WaitPositions
  /\ wpc[p] = "poll"
  /\ run_id \in scan[p]
  /\ exc \in QueryErrors
  /\ FlowEnds(p, "raised", exc, "Failed")
  /\ UNCHANGED <<run_ids, results, returned, status, observed>>

\* Mutant of wait_sleep: the next scan is over all the ids of the call, final
\* or not (`for run_id in self.run_ids`).
wait_sleep_rescans(p) ==
  /\ pc[p] \in WaitPositions
  /\ wpc[p] = "sleep"
  /\ wpc' = [wpc EXCEPT ![p] = "poll"]
  /\ scan' = [scan EXCEPT ![p] = WaitIds(pc[p])]
  /\ UNCHANGED <<variant, backendVars, run_ids, results, pc, pending, completed,
                 raised, returned, status, observed>>

\* Mutant of wait_sleep: pending is not a copy; before each scan the ids that
\* run_ids holds by then and that have no result yet are taken in.
wait_sleep_rereads(p) ==
  /\ pc[p] \in WaitPositions
  /\ wpc[p] = "sleep"
  /\ wpc' = [wpc EXCEPT ![p] = "poll"]
  /\ LET ids == pending[p] \cup (WaitIds(pc[p]) \ observed)
     IN /\ pending' = [pending EXCEPT ![p] = ids]
        /\ scan' = [scan EXCEPT ![p] = ids]
  /\ UNCHANGED <<variant, backendVars, run_ids, results, pc, completed,
                 raised, returned, status, observed>>

\* `await asyncio.sleep(...)` is over: the next scan starts.
wait_sleep(p) ==
  /\ pc[p] \in WaitPositions
  /\ wpc[p] = "sleep"
  /\ wpc' = [wpc EXCEPT ![p] = "poll"]
  /\ scan' = [scan EXCEPT ![p] = pending[p]]
  /\ UNCHANGED <<variant, backendVars, run_ids, results, pc, pending, completed,
                 raised, returned, status, observed>>

\* ------------------------------------- future.result() (prefect_flow.py)

\* The future whose result() is read next: futures are read in list order, and
\* `completed` holds the ids whose result the current statement has read.
NextFuture(p) ==
  LET left == Range(run_ids[BatchAt(pc[p])]) \ completed[p]
  IN CHOOSE id \in left : \A other \in left : id <= other

\* future.result() blocks until the task run is final.  It then returns the
\* task's result if the run Completed, and raises otherwise; sub_etl goes on
\* to its next statement after the last future of the statement.
future_result(p) ==
  /\ pc[p] \in ResultPositions
  /\ LET id == NextFuture(p)
         got == completed[p] \cup {id}
     IN /\ IsFinal(jobState[id])
        /\ IF jobState[id] = "Completed"
           THEN /\ observed' = observed \cup {id}
                /\ IF got = Range(run_ids[BatchAt(pc[p])])
                   THEN /\ pc' = [pc EXCEPT ![p] = After(p)]
                        /\ completed' = [completed EXCEPT ![p] = {}]
                   ELSE /\ completed' = [completed EXCEPT ![p] = got]
                        /\ UNCHANGED pc
                /\ UNCHANGED <<variant, backendVars, wpc, pending, scan, raised>>
           ELSE /\ observed' = observed \cup {id}
                /\ FlowEnds(p, "raised", "TaskRunFailed", "Failed")
  /\ UNCHANGED <<run_ids, results, returned, status>>

\* ------------------------------------------------------- flow returns

\* main_etl's return value: "status" is the literal "completed".
main_etl_status == "completed"

\* main_etl returns its dict.
main_etl_return ==
  /\ pc["main"] = "return"
  /\ status' = main_etl_status
  /\ FlowEnds("main", "done", None, "Completed")
  /\ UNCHANGED <<run_ids, results, returned, observed>>

\* sub_etl returns; the backend settles its flow run to Completed.
sub_etl_return ==
  /\ pc["sub"] = "return"
  /\ FlowEnds("sub", "done", None, "Completed")
  /\ UNCHANGED <<run_ids, results, returned, status, observed>>

\* ------------------------------------------------------------ the backend

\* A worker picks a flow run up.  The run created from the sub-etl deployment
\* executes sub_etl, which starts at its first statement.
BackendStart(j) ==
  /\ j \in JobIds
  /\ jobState[j] \in {"Pending", "AwaitingRetry"}
  /\ jobState' = [jobState EXCEPT ![j] = "Running"]
  /\ pc' = IF j \in JobsOf("sub_etl")
           THEN [pc EXCEPT !["sub"] = "submit_table_etl"]
           ELSE pc
  /\ UNCHANGED <<variant, jobTarget, rerun, run_ids, results, waitVars, raised,
                 returned, status, observed>>

\* A Running flow run that orchestrates nothing (pre_etl, final_etl,
\* process_table_etl, the cleanup flows) settles to a final state.
BackendFinish(j, final) ==
  /\ j \in JobIds \ JobsOf("sub_etl")
  /\ jobState[j] = "Running"
  /\ final \in FinalStates
  /\ jobState' = [jobState EXCEPT ![j] = final]
  /\ UNCHANGED <<variant, jobTarget, rerun, run_ids, results, pc, waitVars,
                 raised, returned, status, observed>>

\* The sub_etl flow run is killed while it runs (its process crashes, or the
\* run is cancelled): sub_etl executes no further statement.
BackendKillsSub(final) ==
  /\ pc["sub"] \in SubmitPositions \cup WaitPositions \cup ResultPositions \cup {"return"}
  /\ final \in {"Crashed", "Cancelled"}
  /\ FlowEnds("sub", "killed", None, final)
  /\ UNCHANGED <<run_ids, results, returned, status, observed>>

\* An operator retries a flow run that did not complete (the backend's retry
\* of a run): it leaves its final state and is scheduled again, once.
BackendRerun(j) ==
  /\ j \in JobIds \ rerun
  /\ jobState[j] \in FinalStates \ {"Completed"}
  /\ jobState' = [jobState EXCEPT ![j] = "AwaitingRetry"]
  /\ rerun' = rerun \cup {j}
  /\ UNCHANGED <<variant, jobTarget, run_ids, results, pc, waitVars, raised,
                 returned, status, observed>>

\* The sub_etl flow run ends, as seen by whoever waits for it: sub_etl
\* returned (Completed), raised (Failed) or was killed (Crashed, Cancelled).
SubEtlEnds(final) ==
  /\ pc["sub"] = "submit_table_etl"
  /\ final \in FinalStates
  /\ FlowEnds("sub", "ended", None, final)
  /\ UNCHANGED <<run_ids, results, returned, status, observed>>

\* ------------------------------------------------------- the pipeline run

\* One step of a run of main_etl against the backend.
Next ==
  \/ \E p \in {"main", "sub"} : submit(p) /\ UNCHANGED <<callVars, limitVars>>
  \/ \E p \in {"main", "sub"} : submit_raises(p) /\ UNCHANGED <<callVars, limitVars>>
  \/ \E p \in {"main", "sub"} : wait_enter(p) /\ UNCHANGED <<callVars, limitVars>>
  \/ \E p \in {"main", "sub"} : \E run_id \in scan[p] :
        wait_poll(p, run_id) /\ UNCHANGED <<callVars, limitVars>>
  \/ \E p \in {"main", "sub"} : \E run_id \in scan[p] : \E exc \in PipelineQueryErrors :
        wait_poll_raises(p, run_id, exc) /\ UNCHANGED <<callVars, limitVars>>
  \/ \E p \in {"main", "sub"} : wait_sleep(p) /\ UNCHANGED <<callVars, limitVars>>
  \/ main_etl_return /\ UNCHANGED <<callVars, limitVars>>
  \/ sub_etl_return /\ UNCHANGED <<callVars, limitVars>>
  \/ \E j \in JobIds : BackendStart(j) /\ UNCHANGED <<callVars, limitVars>>
  \/ \E j \in JobIds : \E final \in FinalStates :
        BackendFinish(j, final) /\ UNCHANGED <<callVars, limitVars>>
  \/ \E final \in FinalStates : BackendKillsSub(final) /\ UNCHANGED <<callVars, limitVars>>

Spec == Init /\ [][Next]_vars

\* ------------------------------------------ main_etl alone, both variants

\* main_etl of either file is about to run.
InitMain ==
  /\ Fresh
  /\ variant \in Variants
  /\ pc = [p \in Procs |-> IF p = "main" THEN "submit_pre_etl" ELSE "not_started"]

\* One step of main_etl against the backend; the run of sub_etl is seen from
\* outside, as a flow run that starts and ends.
NextMain ==
  \/ submit("main") /\ UNCHANGED <<callVars, limitVars>>
  \/ submit_raises("main") /\ UNCHANGED <<callVars, limitVars>>
  \/ wait_enter("main") /\ UNCHANGED <<callVars, limitVars>>
  \/ \E run_id \in scan["main"] : wait_poll("main", run_id) /\ UNCHANGED <<callVars, limitVars>>
  \/ \E run_id \in scan["main"] : \E exc \in QueryErrors :
        wait_poll_raises("main", run_id, exc) /\ UNCHANGED <<callVars, limitVars>>
  \/ wait_sleep("main") /\ UNCHANGED <<callVars, limitVars>>
  \/ main_etl_return /\ UNCHANGED <<callVars, limitVars>>
  \/ \E j \in JobIds : BackendStart(j) /\ UNCHANGED <<callVars, limitVars>>
  \/ \E j \in JobIds : \E final \in FinalStates :
        BackendFinish(j, final) /\ UNCHANGED <<callVars, limitVars>>
  \/ \E final \in FinalStates : SubEtlEnds(final) /\ UNCHANGED <<callVars, limitVars>>

SpecMain == InitMain /\ [][NextMain]_vars

\* ------------------------- main_etl when no backend call raises, both variants

\* A step of main_etl.
MainSteps ==
  \/ submit("main") /\ UNCHANGED <<callVars, limitVars>>
  \/ wait_enter("main") /\ UNCHANGED <<callVars, limitVars>>
  \/ \E run_id \in scan["main"] : wait_poll("main", run_id) /\ UNCHANGED <<callVars, limitVars>>
  \/ wait_sleep("main") /\ UNCHANGED <<callVars, limitVars>>
  \/ main_etl_return /\ UNCHANGED <<callVars, limitVars>>

\* A step of the backend: a run starts or ends (sub_etl seen from outside).
BackendSteps ==
  \/ \E j \in JobIds : BackendStart(j) /\ UNCHANGED <<callVars, limitVars>>
  \/ \E j \in JobIds : \E final \in FinalStates :
        BackendFinish(j, final) /\ UNCHANGED <<callVars, limitVars>>
  \/ \E final \in FinalStates : SubEtlEnds(final) /\ UNCHANGED <<callVars, limitVars>>

NextPhases == MainSteps \/ BackendSteps

\* The event loop runs main_etl whenever it can take a step; the backend is
\* free to leave a run unfinished.
SpecPhases == InitMain /\ [][NextPhases]_vars /\ WF_vars(MainSteps)

\* ------------------------------------------- sub_etl alone, both variants

\* sub_etl of any of the files is about to run: its flow run is Pending.
InitSub ==
  /\ variant \in Variants \cup {Tasks}
  /\ jobState = <<"Pending">>
  /\ jobTarget = <<deployment_path["sub_etl"]>>
  /\ rerun = {}
  /\ run_ids = [b \in Batches |-> <<>>]
  /\ results = [b \in Batches |-> EmptyDict]
  /\ pc = [p \in Procs |-> IF p = "sub" THEN "not_started" ELSE "off"]
  /\ wpc = [p \in Procs |-> "enter"]
  /\ pending = [p \in Procs |-> {}]
  /\ scan = [p \in Procs |-> {}]
  /\ completed = [p \in Procs |-> {}]
  /\ raised = [p \in Procs |-> None]
  /\ returned = [p \in Procs |-> None]
  /\ status = None
  /\ observed = {}
  /\ calls = 0
  /\ polls = 0
  /\ sleeps = 0
  /\ called_with = {}
  /\ cached = FALSE
  /\ settled = FALSE
  /\ gather = <<>>
  /\ limits = <<>>
  /\ taskState = <<>>
  /\ retried = <<>>
  /\ deployed = <<>>
  /\ setup = NoSetup
  /\ pools = {}
  /\ server = NoServer
  /\ manager = NoManager
  /\ popen = <<>>

\* One step of sub_etl against the backend.
NextSub ==
  \/ submit("sub") /\ UNCHANGED <<callVars, limitVars>>
  \/ submit_raises("sub") /\ UNCHANGED <<callVars, limitVars>>
  \/ wait_enter("sub") /\ UNCHANGED <<callVars, limitVars>>
  \/ \E run_id \in scan["sub"] : wait_poll("sub", run_id) /\ UNCHANGED <<callVars, limitVars>>
  \/ \E run_id \in scan["sub"] : \E exc \in QueryErrors :
        wait_poll_raises("sub", run_id, exc) /\ UNCHANGED <<callVars, limitVars>>
  \/ wait_sleep("sub") /\ UNCHANGED <<callVars, limitVars>>
  \/ future_result("sub") /\ UNCHANGED <<callVars, limitVars>>
  \/ sub_etl_return /\ UNCHANGED <<callVars, limitVars>>
  \/ \E j \in JobIds : BackendStart(j) /\ UNCHANGED <<callVars, limitVars>>
  \/ \E j \in JobIds : \E final \in FinalStates :
        BackendFinish(j, final) /\ UNCHANGED <<callVars, limitVars>>
  \/ \E final \in FinalStates : BackendKillsSub(final) /\ UNCHANGED <<callVars, limitVars>>

SpecSub == InitSub /\ [][NextSub]_vars

\* ------------------------------------------- one FlowSubmission, driven

\* Bounds of the driven object: submit calls, wait calls, sleeps per wait call.
MaxSubmits == 2
MaxWaits == 2
MaxSleeps == 2

\* The caller holds a fresh FlowSubmission("etl-parent/etl-child-deployment").
InitBatch ==
  /\ Fresh
  /\ variant \in Variants
  /\ pc = [p \in Procs |-> IF p = "caller" THEN "idle" ELSE "off"]

\* Every run of a set has settled to Completed on the backend.
AllCompleted(ids) == \A id \in ids : jobState[id] = "Completed"

\* The caller calls submit() or wait() next.
caller_calls(op) ==
  /\ pc["caller"] = "idle"
  /\ \/ op = "submit_batch" /\ Len(run_ids["batch"]) < MaxSubmits
     \/ op = "wait_batch" /\ calls < MaxWaits
  /\ pc' = [pc EXCEPT !["caller"] = op]
  /\ UNCHANGED <<variant, backendVars, run_ids, results, waitVars, raised,
                 returned, status, observed, callVars, limitVars>>

\* wait() is entered: the call is counted and its run ids are noted.
caller_wait_enter ==
  /\ wait_enter("caller")
  /\ calls' = calls + 1
  /\ polls' = 0
  /\ sleeps' = 0
  /\ called_with' = Range(run_ids["batch"])
  /\ cached' = (Range(run_ids["batch"]) \subseteq DOMAIN results["batch"])
  /\ settled' = AllCompleted(Range(run_ids["batch"]))
  /\ UNCHANGED <<gather, limitVars>>

caller_wait_poll(run_id) ==
  /\ wait_poll("caller", run_id)
  /\ polls' = polls + 1
  /\ UNCHANGED <<calls, sleeps, called_with, cached, settled, gather, limitVars>>

caller_wait_sleep ==
  /\ sleeps < MaxSleeps
  /\ wait_sleep("caller")
  /\ sleeps' = sleeps + 1
  /\ settled' = AllCompleted(pending["caller"])
  /\ UNCHANGED <<calls, polls, called_with, cached, gather, limitVars>>

\* One step of a caller using one FlowSubmission against the backend.
NextBatch ==
  \/ \E op \in {"submit_batch", "wait_batch"} : caller_calls(op)
  \/ submit("caller") /\ UNCHANGED <<callVars, limitVars>>
  \/ submit_raises("caller") /\ UNCHANGED <<callVars, limitVars>>
  \/ caller_wait_enter
  \/ \E run_id \in scan["caller"] : caller_wait_poll(run_id)
  \/ \E run_id \in scan["caller"] : \E exc \in QueryErrors :
        wait_poll_raises("caller", run_id, exc) /\ UNCHANGED <<callVars, limitVars>>
  \/ caller_wait_sleep
  \/ \E j \in JobIds : BackendStart(j) /\ UNCHANGED <<callVars, limitVars>>
  \/ \E j \in JobIds : \E final \in FinalStates :
        BackendFinish(j, final) /\ UNCHANGED <<callVars, limitVars>>
  \/ \E j \in JobIds : BackendRerun(j) /\ UNCHANGED <<callVars, limitVars>>

SpecBatch == InitBatch /\ [][NextBatch]_vars

\* ------------------------- one FlowSubmission, used as the docstring shows

\* The usage example of flow_submitter: submit() calls, then one wait().
example_calls(op) ==
  /\ calls = 0
  /\ caller_calls(op)

\* One step of the usage example against the backend.
NextExample ==
  \/ \E op \in {"submit_batch", "wait_batch"} : example_calls(op)
  \/ submit("caller") /\ UNCHANGED <<callVars, limitVars>>
  \/ submit_raises("caller") /\ UNCHANGED <<callVars, limitVars>>
  \/ caller_wait_enter
  \/ \E run_id \in scan["caller"] : caller_wait_poll(run_id)
  \/ \E run_id \in scan["caller"] : \E exc \in QueryErrors :
        wait_poll_raises("caller", run_id, exc) /\ UNCHANGED <<callVars, limitVars>>
  \/ caller_wait_sleep
  \/ \E j \in JobIds : BackendStart(j) /\ UNCHANGED <<callVars, limitVars>>
  \/ \E j \in JobIds : \E final \in FinalStates :
        BackendFinish(j, final) /\ UNCHANGED <<callVars, limitVars>>
  \/ \E j \in JobIds : BackendRerun(j) /\ UNCHANGED <<callVars, limitVars>>

SpecExample == InitBatch /\ [][NextExample]_vars

\* ----------------------- submit() calls gathered on one FlowSubmission

\* Bound: the submit() coroutines of one asyncio.gather (three in the example).
MaxGather == 2

\* Mutant of Appended: the list is rebuilt from what run_ids held when the
\* coroutine called run_deployment (self.run_ids = seen + [flow_run.id]).
AppendedToSeen(now, seen, id) == Append(seen, id)

\* self.run_ids.append(flow_run.id): the id goes onto the list as it is when
\* the coroutine is resumed.
Appended(now, seen, id) == Append(now, id)

\* asyncio.gather starts a submit() coroutine, which runs up to
\* `await run_deployment(...)`; the backend creates the flow run as Pending.
\* `seen` notes run_ids as it is at that moment.
submit_awaits ==
  /\ Len(gather) < MaxGather
  /\ LET id == Len(jobState) + 1
     IN /\ jobState' = Append(jobState, "Pending")
        /\ jobTarget' = Append(jobTarget, Target("batch"))
        /\ gather' = Append(gather, [at |-> "awaiting", id |-> id,
                                     seen |-> run_ids["batch"], ret |-> None])
  /\ UNCHANGED <<variant, rerun, run_ids, results, pc, waitVars, raised, returned,
                 status, observed, calls, polls, sleeps, called_with, cached,
                 settled, limitVars>>

\* run_deployment raised in a gathered coroutine: nothing is appended, and the
\* coroutine ends by the exception.
submit_awaits_raises ==
  /\ Len(gather) < MaxGather
  /\ gather' = Append(gather, [at |-> "raised", id |-> 0,
                               seen |-> run_ids["batch"], ret |-> None])
  /\ UNCHANGED <<variant, backendVars, run_ids, results, pc, waitVars, raised,
                 returned, status, observed, calls, polls, sleeps, called_with,
                 cached, settled, limitVars>>

\* The event loop resumes a coroutine whose run_deployment has answered: it
\* appends flow_run.id to run_ids and returns it.
submit_resumes(g) ==
  /\ g \in DOMAIN gather
  /\ gather[g].at = "awaiting"
  /\ run_ids' = [run_ids EXCEPT !["batch"] = Appended(@, gather[g].seen, gather[g].id)]
  /\ gather' = [gather EXCEPT ![g].at = "returned", ![g].ret = gather[g].id]
  /\ UNCHANGED <<variant, backendVars, results, pc, waitVars, raised, returned,
                 status, observed, calls, polls, sleeps, called_with, cached,
                 settled, limitVars>>

\* The caller holds a fresh FlowSubmission (v3) and an event loop.
InitGather ==
  /\ Fresh
  /\ variant = "v3"
  /\ pc = [p \in Procs |-> IF p = "caller" THEN "idle" ELSE "off"]

\* One step of the event loop or of the backend: gathered submit() coroutines
\* and one wait() on the same object, interleaved at their awaits.
NextGather ==
  \/ submit_awaits
  \/ submit_awaits_raises
  \/ \E g \in DOMAIN gather : submit_resumes(g)
  \/ example_calls("wait_batch")
  \/ caller_wait_enter
  \/ \E run_id \in scan["caller"] : caller_wait_poll(run_id)
  \/ caller_wait_sleep
  \/ \E j \in JobIds : BackendStart(j) /\ UNCHANGED <<callVars, limitVars>>
  \/ \E j \in JobIds : \E final \in FinalStates :
        BackendFinish(j, final) /\ UNCHANGED <<callVars, limitVars>>

SpecGather == InitGather /\ [][NextGather]_vars

\* ------------------------------------------------------ the setup scripts

\* The tag both scripts create a limit for, and the maximum they ask for.
concurrency_tag == "database"
max_concurrent == 3

\* scripts/setup_concurrency_limit.py and PrefectServerSetup.setup_concurrency_limit.
SetupScripts == {"setup_concurrency_limit", "setup_prefect_server"}

\* Bound: how many times a setup script is run.
MaxSetupRuns == 2

\* What the backend does with a create request for a tag that has a limit: it
\* rejects it with an error that says "already exists", or it takes the new
\* maximum in place of the stored one.
DuplicateOutcomes == {"raises", "updates"}

\* The exception client.create_concurrency_limit raises, None if it returns.
create_raises(tag, duplicate, available) ==
  IF ~available THEN "Unavailable"
  ELSE IF tag \in DOMAIN limits /\ duplicate = "raises" THEN "AlreadyExists"
  ELSE None

\* A handler that takes every exception for "already exists".
says_anything(exc) == exc # None

\* `"already exists" in str(e).lower()`
says_already_exists(exc) == exc = "AlreadyExists"

\* What create_concurrency_limit of setup_concurrency_limit.py prints for the
\* outcome of the request: Created, already exists, or Error (and re-raises).
create_concurrency_limit(exc) ==
  IF exc = None THEN "created"
  ELSE IF says_already_exists(exc) THEN "already_exists"
  ELSE "error"

\* What PrefectServerSetup.setup_concurrency_limit reports for the outcome of
\* its create request: Created and True, or Error and False for any exception.
setup_concurrency_limit(exc) ==
  IF exc = None THEN "created" ELSE "error"

\* Somebody creates the limit by hand (UI or CLI) while no script is running.
OperatorCreatesLimit(max) ==
  /\ setup.at \in {"idle", "done"}
  /\ concurrency_tag \notin DOMAIN limits
  /\ max \in 1..max_concurrent
  /\ limits' = (concurrency_tag :> max) @@ limits
  /\ UNCHANGED <<variant, jobState, jobTarget, rerun, run_ids, results, pc, waitVars,
                 raised, returned, status, observed, callVars, taskState, retried, setup,
                 deployed, opsVars>>

\* A setup script is started; the limits the backend holds then are noted.
setup_starts(script) ==
  /\ setup.at \in {"idle", "done"}
  /\ setup.runs < MaxSetupRuns
  /\ script \in SetupScripts
  /\ setup' = [script |-> script,
               at |-> IF script = "setup_prefect_server" THEN "read" ELSE "list",
               report |-> None, cause |-> None,
               runs |-> setup.runs + 1, before |-> limits, listed |-> <<>>]
  /\ UNCHANGED <<variant, jobState, jobTarget, rerun, run_ids, results, pc, waitVars,
                 raised, returned, status, observed, callVars, limits, taskState, retried,
                 deployed, opsVars>>

\* PrefectServerSetup.setup_concurrency_limit reads the limits first: if the
\* tag is among them it reports "already exists" and returns True; if it is
\* not, or if the read raised (`except Exception: pass`), it goes on to create.
setup_reads(available) ==
  /\ setup.script = "setup_prefect_server"
  /\ setup.at = "read"
  /\ setup' = IF available /\ concurrency_tag \in DOMAIN limits
              THEN [setup EXCEPT !.at = "done", !.report = "already_exists"]
              ELSE [setup EXCEPT !.at = "create"]
  /\ UNCHANGED <<variant, jobState, jobTarget, rerun, run_ids, results, pc, waitVars,
                 raised, returned, status, observed, callVars, limits, taskState, retried,
                 deployed, opsVars>>

\* list_concurrency_limits of setup_concurrency_limit.py, which main calls
\* before and after the create: it prints the limits it read, or the error of
\* the read, and returns either way.
list_concurrency_limits(available) ==
  /\ setup.script = "setup_concurrency_limit"
  /\ setup.at \in {"list", "list_again"}
  /\ setup' = [setup EXCEPT
                 !.at = IF setup.at = "list" THEN "create" ELSE "done",
                 !.listed = IF available THEN limits ELSE @]
  /\ UNCHANGED <<variant, jobState, jobTarget, rerun, run_ids, results, pc, waitVars,
                 raised, returned, status, observed, callVars, limits, taskState, retried,
                 deployed, opsVars>>

\* client.create_concurrency_limit(tag, max_concurrent) and what the script
\* makes of its outcome.  main of setup_concurrency_limit.py lists the limits
\* again unless create_concurrency_limit re-raised.
setup_creates(duplicate, available) ==
  /\ setup.at = "create"
  /\ LET exc == create_raises(concurrency_tag, duplicate, available)
         report == IF setup.script = "setup_prefect_server"
                   THEN setup_concurrency_limit(exc)
                   ELSE create_concurrency_limit(exc)
     IN /\ limits' = IF exc = None
                     THEN (concurrency_tag :> max_concurrent) @@ limits
                     ELSE limits
        /\ setup' = [setup EXCEPT
                       !.at = IF setup.script = "setup_concurrency_limit"
                                 /\ report # "error"
                              THEN "list_again" ELSE "done",
                       !.cause = exc,
                       !.report = report]
  /\ UNCHANGED <<variant, jobState, jobTarget, rerun, run_ids, results, pc, waitVars,
                 raised, returned, status, observed, callVars, taskState, retried,
                 deployed, opsVars>>
\* No flow runs: only the setup scripts and the backend's limits move.
InitSetup ==
  /\ Fresh
  /\ variant = "v3"
  /\ pc = [p \in Procs |-> "off"]

NextSetup ==
  \/ \E max \in 1..max_concurrent : OperatorCreatesLimit(max)
  \/ \E script \in SetupScripts : setup_starts(script)
  \/ \E available \in BOOLEAN : setup_reads(available)
  \/ \E available \in BOOLEAN : list_concurrency_limits(available)
  \/ \E duplicate \in DuplicateOutcomes : \E available \in BOOLEAN :
        setup_creates(duplicate, available)

SpecSetup == InitSetup /\ [][NextSetup]_vars

\* ------------------------------------------ PrefectServerSetup.setup

\* The work pool the setup creates (PREFECT_WORK_POOL's default).
work_pool_name == "default-pool"

\* Bound: the health requests wait_for_server_ready makes before max_wait
\* seconds are over.
MaxReadyPolls == 2

\* What a GET of /health can come to: status 200, another status, or an
\* exception.  A server that is not up answers nothing.
HealthResponses == {"200", "503", "ConnectError"}
Health(state) == IF state = "up" THEN HealthResponses ELSE {"ConnectError"}

\* Where setup goes after check_server_connection: on to the work pool, or
\* to start a native server if so configured, or it returns False.
after_check_goes_on(ok) == "pool_read"
after_check(ok) ==
  IF ok THEN "pool_read"
  ELSE IF server.start_server_native THEN "start_native"
  ELSE "done"

\* Somebody starts the server by hand (make prefect-server) before the setup
\* is run.
OperatorStartsServer ==
  /\ server.at = "idle"
  /\ server.state = "down"
  /\ server' = [server EXCEPT !.state = "up"]
  /\ UNCHANGED <<variant, backendVars, run_ids, results, pc, waitVars, raised, returned,
                 status, observed, callVars, limits, taskState, retried, deployed, setup,
                 pools, manager, popen>>

\* main: PrefectServerSetup() and setup.setup(), with PREFECT_START_SERVER
\* set to native or not.
setup_begins(native) ==
  /\ server.at = "idle"
  /\ server' = [server EXCEPT !.at = "check", !.start_server_native = native]
  /\ UNCHANGED <<variant, backendVars, run_ids, results, pc, waitVars, raised, returned,
                 status, observed, callVars, limits, taskState, retried, deployed, setup,
                 pools, manager, popen>>

\* check_server_connection: True exactly for a response of status 200.
check_server_connection(response) ==
  /\ server.at = "check"
  /\ response \in Health(server.state)
  /\ LET ok == response = "200"
         at == after_check(ok)
     IN server' = [server EXCEPT !.at = at,
                                 !.reachable = ok,
                                 !.finished = IF at = "done" THEN {"setup"} ELSE @]
  /\ UNCHANGED <<variant, backendVars, run_ids, results, pc, waitVars, raised, returned,
                 status, observed, callVars, limits, taskState, retried, deployed, setup,
                 pools, manager, popen>>

\* start_native_server: Popen of `prefect server start`; None if the command
\* is not found or the process has ended after two seconds, and setup then
\* returns False.
start_native_server(outcome) ==
  /\ server.at = "start_native"
  /\ outcome \in {"started", "exited", "not_found"}
  /\ server' = IF outcome = "started"
               THEN [server EXCEPT !.at = "wait_ready",
                                   !.server_process = "running",
                                   !.elapsed = 0,
                                   !.state = IF @ = "down" THEN "starting" ELSE @]
               ELSE [server EXCEPT !.at = "done", !.finished = {"setup"}]
  /\ UNCHANGED <<variant, backendVars, run_ids, results, pc, waitVars, raised, returned,
                 status, observed, callVars, limits, taskState, retried, deployed, setup,
                 pools, manager, popen>>

\* The server that was started begins to answer.
ServerBecomesReady ==
  /\ server.state = "starting"
  /\ server' = [server EXCEPT !.state = "up"]
  /\ UNCHANGED <<variant, backendVars, run_ids, results, pc, waitVars, raised, returned,
                 status, observed, callVars, limits, taskState, retried, deployed, setup,
                 pools, manager, popen>>

\* One round of wait_for_server_ready's loop: True on a 200, else a second
\* of sleep.
wait_for_server_ready(response) ==
  /\ server.at = "wait_ready"
  /\ server.elapsed < MaxReadyPolls
  /\ response \in Health(server.state)
  /\ server' = IF response = "200"
               THEN [server EXCEPT !.at = "pool_read", !.reachable = TRUE]
               ELSE [server EXCEPT !.elapsed = @ + 1]
  /\ UNCHANGED <<variant, backendVars, run_ids, results, pc, waitVars, raised, returned,
                 status, observed, callVars, limits, taskState, retried, deployed, setup,
                 pools, manager, popen>>

\* max_wait is over: wait_for_server_ready returns False, setup terminates
\* the process it started and returns False.
wait_times_out ==
  /\ server.at = "wait_ready"
  /\ server.elapsed >= MaxReadyPolls
  /\ server' = [server EXCEPT !.at = "done",
                              !.finished = {"setup"},
                              !.server_process = "terminated",
                              !.state = "down"]
  /\ UNCHANGED <<variant, backendVars, run_ids, results, pc, waitVars, raised, returned,
                 status, observed, callVars, limits, taskState, retried, deployed, setup,
                 pools, manager, popen>>

\* create_work_pool reads the pools first: True if the pool is among them;
\* if it is not, or if the read raised, it goes on to create.
create_work_pool_reads(available) ==
  /\ server.at = "pool_read"
  /\ server' = IF available /\ work_pool_name \in pools
               THEN [server EXCEPT !.at = "limit_read", !.pool_returned = TRUE,
                                   !.finished = @ \cup {"create_work_pool"}]
               ELSE [server EXCEPT !.at = "pool_create"]
  /\ UNCHANGED <<variant, backendVars, run_ids, results, pc, waitVars, raised, returned,
                 status, observed, callVars, limits, taskState, retried, deployed, setup,
                 pools, manager, popen>>

\* client.create_work_pool: True if it returns, False for any exception (an
\* unreachable backend, a pool of that name).  setup ignores the value.
create_work_pool_creates(available) ==
  /\ server.at = "pool_create"
  /\ LET ok == available /\ work_pool_name \notin pools
     IN /\ pools' = IF ok THEN pools \cup {work_pool_name} ELSE pools
        /\ server' = [server EXCEPT !.at = "limit_read",
                                    !.pool_returned = ok,
                                    !.finished = @ \cup {"create_work_pool"},
                                    !.create_calls = @ \cup {"work_pool"}]
  /\ UNCHANGED <<variant, backendVars, run_ids, results, pc, waitVars, raised, returned,
                 status, observed, callVars, limits, taskState, retried, deployed, setup,
                 manager, popen>>

\* setup_concurrency_limit reads the limits first: True if the tag is among
\* them; if it is not, or if the read raised, it goes on to create.
setup_concurrency_limit_reads(available) ==
  /\ server.at = "limit_read"
  /\ server' = IF available /\ concurrency_tag \in DOMAIN limits
               THEN [server EXCEPT !.at = "verify_flows",
                                   !.limit_returned = TRUE,
                                   !.limit_existed = TRUE,
                                   !.finished = @ \cup {"setup_concurrency_limit"}]
               ELSE [server EXCEPT !.at = "limit_create"]
  /\ UNCHANGED <<variant, backendVars, run_ids, results, pc, waitVars, raised, returned,
                 status, observed, callVars, limits, taskState, retried, deployed, setup,
                 pools, manager, popen>>

\* client.create_concurrency_limit: True if it returns, False for any
\* exception.  Whether the tag has a limit at that moment is noted.
setup_concurrency_limit_creates(duplicate, available) ==
  /\ server.at = "limit_create"
  /\ LET exc == create_raises(concurrency_tag, duplicate, available)
     IN /\ limits' = IF exc = None
                     THEN (concurrency_tag :> max_concurrent) @@ limits
                     ELSE limits
        /\ server' = [server EXCEPT
                        !.at = "verify_flows",
                        !.limit_returned = (setup_concurrency_limit(exc) = "created"),
                        !.limit_existed = (concurrency_tag \in DOMAIN limits'),
                        !.finished = @ \cup {"setup_concurrency_limit"},
                        !.create_calls = @ \cup {"concurrency_limit"}]
  /\ UNCHANGED <<variant, backendVars, run_ids, results, pc, waitVars, raised, returned,
                 status, observed, callVars, taskState, retried, deployed, setup,
                 pools, manager, popen>>

\* Another setup process, run against the same server, creates the limit or
\* the work pool.
AnotherSetupCreates(what) ==
  /\ server.state = "up"
  /\ \/ /\ what = "concurrency_limit"
        /\ concurrency_tag \notin DOMAIN limits
        /\ limits' = (concurrency_tag :> max_concurrent) @@ limits
        /\ pools' = pools
     \/ /\ what = "work_pool"
        /\ work_pool_name \notin pools
        /\ pools' = pools \cup {work_pool_name}
        /\ limits' = limits
  /\ UNCHANGED <<variant, backendVars, run_ids, results, pc, waitVars, raised, returned,
                 status, observed, callVars, taskState, retried, deployed, setup,
                 server, manager, popen>>

\* verify_setup, first check: read_flows; an exception clears all_good.
verify_setup_flows(available) ==
  /\ server.at = "verify_flows"
  /\ server' = [server EXCEPT !.at = "verify_pools",
                              !.all_good = available,
                              !.confirmed = IF available THEN {"api"} ELSE {}]
  /\ UNCHANGED <<variant, backendVars, run_ids, results, pc, waitVars, raised, returned,
                 status, observed, callVars, limits, taskState, retried, deployed, setup,
                 pools, manager, popen>>

\* verify_setup, second check: read_work_pools; a missing pool clears
\* all_good, an exception prints a warning and leaves it.
verify_setup_pools(available) ==
  /\ server.at = "verify_pools"
  /\ server' = [server EXCEPT
                  !.at = "verify_limits",
                  !.all_good = IF available /\ work_pool_name \notin pools
                               THEN FALSE ELSE @,
                  !.confirmed = IF available /\ work_pool_name \in pools
                                THEN @ \cup {"work_pool"} ELSE @]
  /\ UNCHANGED <<variant, backendVars, run_ids, results, pc, waitVars, raised, returned,
                 status, observed, callVars, limits, taskState, retried, deployed, setup,
                 pools, manager, popen>>

\* verify_setup, third check: read_concurrency_limits; a missing tag or an
\* exception clears all_good.  setup returns what verify_setup returned.
verify_setup_limits(available) ==
  /\ server.at = "verify_limits"
  /\ LET found == available /\ concurrency_tag \in DOMAIN limits
         all_good == IF found THEN server.all_good ELSE FALSE
     IN server' = [server EXCEPT
                     !.at = "done",
                     !.all_good = all_good,
                     !.confirmed = IF found THEN @ \cup {"concurrency_limit"} ELSE @,
                     !.finished = @ \cup {"verify_setup", "setup"},
                     !.returned = all_good]
  /\ UNCHANGED <<variant, backendVars, run_ids, results, pc, waitVars, raised, returned,
                 status, observed, callVars, limits, taskState, retried, deployed, setup,
                 pools, manager, popen>>

\* No flow runs: only the server, the setup and other setup processes move.
InitServerSetup ==
  /\ Fresh
  /\ variant = "v3"
  /\ pc = [p \in Procs |-> "off"]

NextServerSetup ==
  \/ OperatorStartsServer
  \/ \E native \in BOOLEAN : setup_begins(native)
  \/ \E response \in HealthResponses : check_server_connection(response)
  \/ \E outcome \in {"started", "exited", "not_found"} : start_native_server(outcome)
  \/ ServerBecomesReady
  \/ \E response \in HealthResponses : wait_for_server_ready(response)
  \/ wait_times_out
  \/ \E available \in BOOLEAN : create_work_pool_reads(available)
  \/ \E available \in BOOLEAN : create_work_pool_creates(available)
  \/ \E available \in BOOLEAN : setup_concurrency_limit_reads(available)
  \/ \E duplicate \in DuplicateOutcomes : \E available \in BOOLEAN :
        setup_concurrency_limit_creates(duplicate, available)
  \/ \E what \in {"concurrency_limit", "work_pool"} : AnotherSetupCreates(what)
  \/ \E available \in BOOLEAN : verify_setup_flows(available)
  \/ \E available \in BOOLEAN : verify_setup_pools(available)
  \/ \E available \in BOOLEAN : verify_setup_limits(available)

SpecServerSetup == InitServerSetup /\ [][NextServerSetup]_vars

\* ------------------------------------------------- start_workers.py

\* Bounds: the --workers values tried, and how many worker processes end on
\* their own (a crash, or the exit that follows a terminate).
MaxWorkers == 2
MaxExits == 2

\* The --pool values tried: PREFECT_WORK_POOL's default and another.
PoolNames == {"default-pool", "my-pool"}

\* The positions of main inside its try block: the start loop, and the
\* monitor loop (the sleep, the poll of process i, its restart).
Starting == {"start", "append"}
Monitoring == {"sleep", "check", "restart", "replace"}

\* The pids in `processes`.
Tracked == Range(manager.processes)

\* `process.poll() is not None`
Exited(pid) == ~popen[pid].alive

\* Where the monitor loop goes after polling process i: it restarts a
\* process that has exited and goes on to the next otherwise.
after_poll_ignores(pid) == "next"
after_poll(pid) == IF Exited(pid) THEN "restart" ELSE "next"

\* The second loop of the KeyboardInterrupt handler kills a process whose
\* poll() is None.
needs_kill_never(pid) == FALSE
needs_kill(pid) == ~Exited(pid)

\* The position after iteration i of a loop over the workers.
NextWorker(i, again, done) ==
  IF i + 1 > manager.workers THEN [at |-> done, i |-> 1] ELSE [at |-> again, i |-> i + 1]

\* main parses --workers and --pool and enters the try block.
main_begins(workers, pool) ==
  /\ manager.at = "off"
  /\ workers \in 1..MaxWorkers
  /\ pool \in PoolNames
  /\ manager' = [manager EXCEPT !.at = "start", !.workers = workers,
                                !.pool = pool, !.i = 1]
  /\ UNCHANGED <<variant, backendVars, run_ids, results, pc, waitVars, raised, returned,
                 status, observed, callVars, limits, taskState, retried, deployed, setup,
                 pools, server, popen>>

\* start_worker(pool, i): Popen of `prefect worker start --pool pool --name
\* worker-i`, in the start loop and in the monitor loop.  If Popen raises,
\* `except Exception` terminates the processes still running and exits 1.
start_worker(launched) ==
  /\ manager.at \in {"start", "restart"}
  /\ IF launched
     THEN /\ popen' = Append(popen, [worker_id |-> manager.i, pool |-> manager.pool,
                                     alive |-> TRUE, terminate |-> FALSE, kill |-> FALSE])
          /\ manager' = [manager EXCEPT
                           !.at = IF @ = "start" THEN "append" ELSE "replace",
                           !.process = Len(popen) + 1]
     ELSE /\ popen' = [pid \in DOMAIN popen |->
                         IF pid \in Tracked /\ ~Exited(pid)
                         THEN [popen[pid] EXCEPT !.terminate = TRUE]
                         ELSE popen[pid]]
          /\ manager' = [manager EXCEPT !.at = "exit_1"]
  /\ UNCHANGED <<variant, backendVars, run_ids, results, pc, waitVars, raised, returned,
                 status, observed, callVars, limits, taskState, retried, deployed, setup,
                 pools, server>>

\* processes.append(process) and the second of sleep that staggers the start.
main_appends ==
  /\ manager.at = "append"
  /\ LET next == NextWorker(manager.i, "start", "sleep")
     IN manager' = [manager EXCEPT !.processes = Append(@, manager.process),
                                   !.process = 0,
                                   !.at = next.at, !.i = next.i]
  /\ UNCHANGED <<variant, backendVars, run_ids, results, pc, waitVars, raised, returned,
                 status, observed, callVars, limits, taskState, retried, deployed, setup,
                 pools, server, popen>>

\* time.sleep(5) of the monitor loop.
monitor_sleeps ==
  /\ manager.at = "sleep"
  /\ manager' = [manager EXCEPT !.at = "check", !.i = 1]
  /\ UNCHANGED <<variant, backendVars, run_ids, results, pc, waitVars, raised, returned,
                 status, observed, callVars, limits, taskState, retried, deployed, setup,
                 pools, server, popen>>

\* One iteration of the monitor's for loop up to the restart: the poll of
\* process i.
monitor_polls ==
  /\ manager.at = "check"
  /\ LET next == NextWorker(manager.i, "check", "sleep")
     IN manager' = IF after_poll(manager.processes[manager.i]) = "restart"
                   THEN [manager EXCEPT !.at = "restart"]
                   ELSE [manager EXCEPT !.at = next.at, !.i = next.i]
  /\ UNCHANGED <<variant, backendVars, run_ids, results, pc, waitVars, raised, returned,
                 status, observed, callVars, limits, taskState, retried, deployed, setup,
                 pools, server, popen>>

\* processes[i - 1] = new_process
monitor_replaces ==
  /\ manager.at = "replace"
  /\ LET next == NextWorker(manager.i, "check", "sleep")
     IN manager' = [manager EXCEPT !.processes[manager.i] = manager.process,
                                   !.process = 0,
                                   !.at = next.at, !.i = next.i]
  /\ UNCHANGED <<variant, backendVars, run_ids, results, pc, waitVars, raised, returned,
                 status, observed, callVars, limits, taskState, retried, deployed, setup,
                 pools, server, popen>>

\* Ctrl+C: KeyboardInterrupt is raised wherever main is inside the try block.
KeyboardInterrupt ==
  /\ manager.at \in Starting \cup Monitoring
  /\ manager' = [manager EXCEPT !.at = "terminate", !.interrupted = TRUE]
  /\ UNCHANGED <<variant, backendVars, run_ids, results, pc, waitVars, raised, returned,
                 status, observed, callVars, limits, taskState, retried, deployed, setup,
                 pools, server, popen>>

\* The handler's first loop: process.terminate() on every process of the list.
handler_terminates ==
  /\ manager.at = "terminate"
  /\ popen' = [pid \in DOMAIN popen |->
                 IF pid \in Tracked
                 THEN [popen[pid] EXCEPT !.terminate = TRUE]
                 ELSE popen[pid]]
  /\ manager' = [manager EXCEPT !.at = "grace"]
  /\ UNCHANGED <<variant, backendVars, run_ids, results, pc, waitVars, raised, returned,
                 status, observed, callVars, limits, taskState, retried, deployed, setup,
                 pools, server>>

\* time.sleep(2): the grace period.
handler_sleeps ==
  /\ manager.at = "grace"
  /\ manager' = [manager EXCEPT !.at = "kill"]
  /\ UNCHANGED <<variant, backendVars, run_ids, results, pc, waitVars, raised, returned,
                 status, observed, callVars, limits, taskState, retried, deployed, setup,
                 pools, server, popen>>

\* The handler's second loop, process.kill() on every process still running,
\* and sys.exit(0).
handler_kills ==
  /\ manager.at = "kill"
  /\ popen' = [pid \in DOMAIN popen |->
                 IF pid \in Tracked /\ needs_kill(pid)
                 THEN [popen[pid] EXCEPT !.kill = TRUE, !.alive = FALSE]
                 ELSE popen[pid]]
  /\ manager' = [manager EXCEPT !.at = "exit_0"]
  /\ UNCHANGED <<variant, backendVars, run_ids, results, pc, waitVars, raised, returned,
                 status, observed, callVars, limits, taskState, retried, deployed, setup,
                 pools, server>>

\* A worker process ends on its own: it crashes, or it exits after a terminate.
WorkerExits(pid) ==
  /\ pid \in DOMAIN popen
  /\ ~Exited(pid)
  /\ Cardinality({q \in DOMAIN popen : Exited(q) /\ ~popen[q].kill}) < MaxExits
  /\ popen' = [popen EXCEPT ![pid].alive = FALSE]
  /\ UNCHANGED <<variant, backendVars, run_ids, results, pc, waitVars, raised, returned,
                 status, observed, callVars, limits, taskState, retried, deployed, setup,
                 pools, server, manager>>

\* No flow runs: only the worker manager and its worker processes move.
InitWorkers ==
  /\ Fresh
  /\ variant = "v3"
  /\ pc = [p \in Procs |-> "off"]

\* The steps of main.
ManagerSteps ==
  \/ \E launched \in BOOLEAN : start_worker(launched)
  \/ main_appends
  \/ monitor_sleeps
  \/ monitor_polls
  \/ monitor_replaces
  \/ handler_terminates
  \/ handler_sleeps
  \/ handler_kills

NextWorkers ==
  \/ \E workers \in 1..MaxWorkers : \E pool \in PoolNames : main_begins(workers, pool)
  \/ ManagerSteps
  \/ KeyboardInterrupt
  \/ \E pid \in 1..(MaxWorkers + MaxExits) : WorkerExits(pid)

\* main runs on as long as it has a step to take.
SpecWorkers == InitWorkers /\ [][NextWorkers]_vars /\ WF_vars(ManagerSteps)

\* ------------------------------------- the pipeline under a limit

\* Bound: the maximum of the limit the pipeline runs under.  It stands for
\* max_concurrent=3 as NumTables stands for range(20): below the number of
\* table runs, so that the limit binds.
MaxConcurrent == 1

\* Mutant of Tags: the sql_query task is declared without tags.
NoTags(name) == {}

\* The tags a task is declared with: tags=["database"] on sql_query,
\* "pre-processing" and "post-processing" on the tasks of pre_etl and final_etl.
Tags(name) ==
  CASE name = "sql-query-task" -> {"database"}
    [] name = "pre-etl-task"   -> {"pre-processing"}
    [] name = "final-etl-task" -> {"post-processing"}
    [] OTHER                   -> {}

\* The flow runs of process_table_etl, each of which calls sql_query(table);
\* prefect_flow.py has none, its sub_etl submits the sql_query task runs itself.
TableFlowRuns == IF variant = Tasks THEN {} ELSE JobsOf("table_etl")

\* The Running task runs that bear a tag: task runs sub_etl submitted
\* (prefect_flow.py) and task runs called by a flow run (the other files).
RunningTagged(tag) ==
  {j \in JobIds : tag \in Tags(jobTarget[j]) /\ jobState[j] = "Running"}
    \cup {j \in DOMAIN taskState :
            tag \in Tags(task_name["table_etl"]) /\ taskState[j] = "Running"}

\* The backend lets a run of task `name` enter Running only while every limit
\* on one of its tags has a free slot.
Admits(name) ==
  \A tag \in Tags(name) \cap DOMAIN limits :
     Cardinality(RunningTagged(tag)) < limits[tag]

\* A run is started if the limits admit it.
BackendAdmits(j) ==
  /\ j \in JobIds
  /\ Admits(jobTarget[j])
  /\ BackendStart(j)
  /\ UNCHANGED <<callVars, limitVars>>

\* process_table_etl calls sql_query(table): the task run is created.
process_table_etl_calls(j) ==
  /\ j \in TableFlowRuns \ DOMAIN taskState
  /\ jobState[j] = "Running"
  /\ taskState' = (j :> "Pending") @@ taskState
  /\ UNCHANGED <<variant, backendVars, run_ids, results, pc, waitVars, raised,
                 returned, status, observed, callVars, limits, retried, setup,
                 deployed, opsVars>>

\* The task run of a table flow run enters Running, if the limits admit it.
TaskStart(j) ==
  /\ j \in DOMAIN taskState
  /\ taskState[j] = "Pending"
  /\ Admits(task_name["table_etl"])
  /\ taskState' = [taskState EXCEPT ![j] = "Running"]
  /\ UNCHANGED <<variant, backendVars, run_ids, results, pc, waitVars, raised,
                 returned, status, observed, callVars, limits, retried, setup,
                 deployed, opsVars>>

\* sql_query returns or raises: its task run settles.
TaskFinish(j, final) ==
  /\ j \in DOMAIN taskState
  /\ taskState[j] = "Running"
  /\ final \in {"Completed", "Failed"}
  /\ taskState' = [taskState EXCEPT ![j] = final]
  /\ UNCHANGED <<variant, backendVars, run_ids, results, pc, waitVars, raised,
                 returned, status, observed, callVars, limits, retried, setup,
                 deployed, opsVars>>

\* process_table_etl returns the task's result, or the task's exception
\* leaves it: the flow run settles to Completed or Failed.
process_table_etl_return(j) ==
  /\ j \in DOMAIN taskState
  /\ jobState[j] = "Running"
  /\ IsFinal(taskState[j])
  /\ jobState' = [jobState EXCEPT
                    ![j] = IF taskState[j] = "Completed" THEN "Completed" ELSE "Failed"]
  /\ UNCHANGED <<variant, jobTarget, rerun, run_ids, results, pc, waitVars, raised,
                 returned, status, observed, callVars, limitVars>>

\* The limit is in place (a setup script has run).  Either main_etl of v3 is
\* about to run, or sub_etl of prefect_flow.py is.
InitLimit ==
  /\ variant \in {"v3", Tasks}
  /\ jobState = IF variant = Tasks THEN <<"Pending">> ELSE <<>>
  /\ jobTarget = IF variant = Tasks THEN <<deployment_path["sub_etl"]>> ELSE <<>>
  /\ rerun = {}
  /\ run_ids = [b \in Batches |-> <<>>]
  /\ results = [b \in Batches |-> EmptyDict]
  /\ pc = [p \in Procs |->
             IF p = "main" /\ variant = "v3" THEN "submit_pre_etl"
             ELSE IF p = "sub" THEN "not_started" ELSE "off"]
  /\ wpc = [p \in Procs |-> "enter"]
  /\ pending = [p \in Procs |-> {}]
  /\ scan = [p \in Procs |-> {}]
  /\ completed = [p \in Procs |-> {}]
  /\ raised = [p \in Procs |-> None]
  /\ returned = [p \in Procs |-> None]
  /\ status = None
  /\ observed = {}
  /\ calls = 0
  /\ polls = 0
  /\ sleeps = 0
  /\ called_with = {}
  /\ cached = FALSE
  /\ settled = FALSE
  /\ gather = <<>>
  /\ limits = (concurrency_tag :> MaxConcurrent)
  /\ taskState = <<>>
  /\ retried = <<>>
  /\ deployed = <<>>
  /\ setup = NoSetup
  /\ pools = {}
  /\ server = NoServer
  /\ manager = NoManager
  /\ popen = <<>>

\* A step of main_etl or sub_etl; no backend call raises.
Orchestrator(p) ==
  \/ submit(p) /\ UNCHANGED <<callVars, limitVars>>
  \/ wait_enter(p) /\ UNCHANGED <<callVars, limitVars>>
  \/ \E run_id \in scan[p] : wait_poll(p, run_id) /\ UNCHANGED <<callVars, limitVars>>
  \/ wait_sleep(p) /\ UNCHANGED <<callVars, limitVars>>
  \/ future_result(p) /\ UNCHANGED <<callVars, limitVars>>
  \/ p = "main" /\ main_etl_return /\ UNCHANGED <<callVars, limitVars>>
  \/ p = "sub" /\ sub_etl_return /\ UNCHANGED <<callVars, limitVars>>

\* A step of the backend and of the runs it executes.
Backend ==
  \/ \E j \in JobIds : BackendAdmits(j)
  \/ \E j \in JobIds \ TableFlowRuns : \E final \in FinalStates :
        BackendFinish(j, final) /\ UNCHANGED <<callVars, limitVars>>
  \/ \E j \in JobIds : process_table_etl_calls(j)
  \/ \E j \in JobIds : TaskStart(j)
  \/ \E j \in JobIds : \E final \in FinalStates : TaskFinish(j, final)
  \/ \E j \in JobIds : process_table_etl_return(j)

NextLimit == Orchestrator("main") \/ Orchestrator("sub") \/ Backend

\* The event loop runs each flow that can take a step, and the backend
\* executes what it holds.
SpecLimit ==
  /\ InitLimit
  /\ [][NextLimit]_vars
  /\ WF_vars(Orchestrator("main"))
  /\ WF_vars(Orchestrator("sub"))
  /\ WF_vars(Backend)

\* ------------------------------------- table runs whose task is retried

\* retries=2 on the sql_query task.
retries == 2

\* How often the backend has retried the sql_query task run of flow run j.
Retried(j) == IF j \in DOMAIN retried THEN retried[j] ELSE 0

\* An attempt of sql_query raised and a retry is left: the backend moves the
\* task run to AwaitingRetry; the flow run that called it stays Running.
TaskAttemptFails(j) ==
  /\ j \in DOMAIN taskState
  /\ taskState[j] = "Running"
  /\ Retried(j) < retries
  /\ taskState' = [taskState EXCEPT ![j] = "AwaitingRetry"]
  /\ UNCHANGED <<variant, backendVars, run_ids, results, pc, waitVars, raised,
                 returned, status, observed, callVars, limits, retried, setup,
                 deployed, opsVars>>

\* retry_delay_seconds are over: the task run is Running again.
TaskRetries(j) ==
  /\ j \in DOMAIN taskState
  /\ taskState[j] = "AwaitingRetry"
  /\ Admits(task_name["table_etl"])
  /\ taskState' = [taskState EXCEPT ![j] = "Running"]
  /\ retried' = (j :> Retried(j) + 1) @@ retried
  /\ UNCHANGED <<variant, backendVars, run_ids, results, pc, waitVars, raised,
                 returned, status, observed, callVars, limits, setup,
                 deployed, opsVars>>

\* The task run settles: Completed by an attempt that returned, Failed by an
\* attempt that raised when no retry is left.
TaskSettles(j, final) ==
  /\ final = "Failed" => Retried(j) = retries
  /\ TaskFinish(j, final)

\* sub_etl (v3) is about to run; no concurrency limit is declared.
InitRetry ==
  /\ InitSub
  /\ variant = "v3"

\* One step of sub_etl, of the backend or of a table flow run; no backend call
\* raises and no flow run is killed.
NextRetry ==
  \/ submit("sub") /\ UNCHANGED <<callVars, limitVars>>
  \/ wait_enter("sub") /\ UNCHANGED <<callVars, limitVars>>
  \/ \E run_id \in scan["sub"] : wait_poll("sub", run_id) /\ UNCHANGED <<callVars, limitVars>>
  \/ wait_sleep("sub") /\ UNCHANGED <<callVars, limitVars>>
  \/ sub_etl_return /\ UNCHANGED <<callVars, limitVars>>
  \/ \E j \in JobIds : BackendAdmits(j)
  \/ \E j \in JobIds \ TableFlowRuns : \E final \in {"Completed", "Failed"} :
        BackendFinish(j, final) /\ UNCHANGED <<callVars, limitVars>>
  \/ \E j \in JobIds : process_table_etl_calls(j)
  \/ \E j \in JobIds : TaskStart(j)
  \/ \E j \in JobIds : TaskAttemptFails(j)
  \/ \E j \in JobIds : TaskRetries(j)
  \/ \E j \in JobIds : \E final \in {"Completed", "Failed"} : TaskSettles(j, final)
  \/ \E j \in JobIds : process_table_etl_return(j)

SpecRetry == InitRetry /\ [][NextRetry]_vars

\* ------------------------------------------------------ the deploy step

\* The files whose __main__ has a deploy command: the two variants and
\* flows/prefect_flow-worker-flow.py ("v1").
DeployFiles == Variants \cup {"v1"}

\* The flow functions, and the name each is given by @flow(name=...).
FlowFuncs == {"main_etl", "pre_etl", "sub_etl", "final_etl", "process_table_etl",
              "cleanup_flow1", "cleanup_flow2"}

flow_name ==
  [f \in FlowFuncs |->
     CASE f = "main_etl"          -> "main-etl-job"
       [] f = "pre_etl"           -> "pre-etl-job"
       [] f = "sub_etl"           -> "sub-etl-job"
       [] f = "final_etl"         -> "final-etl-job"
       [] f = "process_table_etl" -> "process-table-etl"
       [] f = "cleanup_flow1"     -> "cleanup-flow-1"
       [] f = "cleanup_flow2"     -> "cleanup-flow-2"]

\* A DeploymentConfig: the flow function and the deployment's name.
Config(f, name) == [flow_func |-> f, deployment_name |-> name]

\* DEPLOYMENT_CONFIGS of v3 and v2, in list order; for v1 the five
\* Deployment.build_from_flow calls of its deploy command, in statement order.
DEPLOYMENT_CONFIGS(file) ==
  IF file = "v1"
  THEN << Config("main_etl", "main-etl-deployment"),
          Config("sub_etl", "sub-etl-deployment"),
          Config("process_table_etl", "process-table-etl-deployment"),
          Config("cleanup_flow1", "cleanup-flow-1-deployment"),
          Config("cleanup_flow2", "cleanup-flow-2-deployment") >>
  ELSE << Config("main_etl", "main-etl-deployment"),
          Config("pre_etl", "pre-etl-deployment"),
          Config("sub_etl", "sub-etl-deployment"),
          Config("final_etl", "final-etl-deployment"),
          Config("process_table_etl", "process-table-etl-deployment"),
          Config("cleanup_flow1", "cleanup-flow-1-deployment"),
          Config("cleanup_flow2", "cleanup-flow-2-deployment") >>

\* Mutant of RegisteredName: the deployment is registered under its own name,
\* without the flow's.
RegisteredWithoutFlow(config) == config.deployment_name

\* The name under which Deployment.build_from_flow(flow, name).apply()
\* registers a deployment: "<flow name>/<deployment name>".
RegisteredName(config) == flow_name[config.flow_func] \o "/" \o config.deployment_name

\* __name__ of each flow object, which is the name of the decorated function
\* (the Flow takes it over from the function), as the list of its pieces.
func_name ==
  [f \in FlowFuncs |->
     CASE f = "main_etl"          -> <<"main", "_", "etl">>
       [] f = "pre_etl"           -> <<"pre", "_", "etl">>
       [] f = "sub_etl"           -> <<"sub", "_", "etl">>
       [] f = "final_etl"         -> <<"final", "_", "etl">>
       [] f = "process_table_etl" -> <<"process", "_", "table", "_", "etl">>
       [] f = "cleanup_flow1"     -> <<"cleanup", "_", "flow1">>
       [] f = "cleanup_flow2"     -> <<"cleanup", "_", "flow2">>]

\* str.replace(old, new) on a name given by its pieces.
Replace(name, old, new) ==
  [i \in DOMAIN name |-> IF name[i] = old THEN new ELSE name[i]]

\* The string a list of pieces spells.
RECURSIVE Spelled(_)
Spelled(name) ==
  IF name = <<>> THEN "" ELSE Head(name) \o Spelled(Tail(name))

\* The DeploymentConfig.deployment_path property:
\* f"{self.flow_func.__name__.replace('_', '-')}/{self.deployment_name}".
DeploymentConfig_deployment_path(config) ==
  Spelled(Replace(func_name[config.flow_func], "_", "-")) \o "/" \o config.deployment_name

\* The objects whose target main_etl and sub_etl of a file submit to: v1's
\* main_etl calls sub_etl() itself and submits nothing.
SubmittedBatches(file) ==
  IF file = "v1"
  THEN {"table_etl", "cleanup1", "cleanup2"}
  ELSE {"pre_etl", "sub_etl", "final_etl", "table_etl", "cleanup1", "cleanup2"}

\* One iteration of deploy_all_flows: the next config is built and applied.
deploy_applies ==
  /\ pc["main"] = "not_started"
  /\ Len(deployed) < Len(DEPLOYMENT_CONFIGS(variant))
  /\ deployed' = Append(deployed, RegisteredName(DEPLOYMENT_CONFIGS(variant)[Len(deployed) + 1]))
  /\ UNCHANGED <<variant, backendVars, run_ids, results, pc, waitVars, raised,
                 returned, status, observed, callVars, limits, taskState, retried, setup, opsVars>>

\* The run command: asyncio.run(main_etl()).
run_main_etl ==
  /\ pc["main"] = "not_started"
  /\ pc' = [pc EXCEPT !["main"] = "submit_pre_etl"]
  /\ UNCHANGED <<variant, backendVars, run_ids, results, waitVars, raised,
                 returned, status, observed, callVars, limitVars>>

\* run_deployment finds the deployment of the name it is given.
submit_resolves(p) ==
  /\ pc[p] \in SubmitPositions
  /\ Target(BatchAt(pc[p])) \in Range(deployed)
  /\ submit(p)
  /\ UNCHANGED <<callVars, limitVars>>

\* run_deployment finds no deployment of that name and raises.
submit_unknown(p) ==
  /\ pc[p] \in SubmitPositions
  /\ Target(BatchAt(pc[p])) \notin Range(deployed)
  /\ submit_raises(p)
  /\ UNCHANGED <<callVars, limitVars>>

\* Nothing is deployed and nothing runs.
InitDeploy ==
  /\ Fresh
  /\ variant \in Variants
  /\ pc = [p \in Procs |-> IF p = "caller" THEN "off" ELSE "not_started"]

\* The deploy command, then the run command, then the pipeline; the backend
\* can be reached and every run it starts completes or fails.
NextDeploy ==
  \/ deploy_applies
  \/ run_main_etl
  \/ \E p \in {"main", "sub"} : submit_resolves(p)
  \/ \E p \in {"main", "sub"} : submit_unknown(p)
  \/ \E p \in {"main", "sub"} : wait_enter(p) /\ UNCHANGED <<callVars, limitVars>>
  \/ \E p \in {"main", "sub"} : \E run_id \in scan[p] :
        wait_poll(p, run_id) /\ UNCHANGED <<callVars, limitVars>>
  \/ \E p \in {"main", "sub"} : wait_sleep(p) /\ UNCHANGED <<callVars, limitVars>>
  \/ main_etl_return /\ UNCHANGED <<callVars, limitVars>>
  \/ sub_etl_return /\ UNCHANGED <<callVars, limitVars>>
  \/ \E j \in JobIds : BackendStart(j) /\ UNCHANGED <<callVars, limitVars>>
  \/ \E j \in JobIds : \E final \in {"Completed", "Failed"} :
        BackendFinish(j, final) /\ UNCHANGED <<callVars, limitVars>>

SpecDeploy == InitDeploy /\ [][NextDeploy]_vars

\* ================================================================ claims

\* The flow runs of phase 1 of main_etl, and the positions past its barrier.
Phase1Jobs == JobsOf("pre_etl") \cup JobsOf("sub_etl")
PastPhase1 == {"submit_final_etl", "wait_final_etl", "return", "done"}

\* C1: phase barrier.  Whenever a final-etl flow run exists on the backend,
\* both phase-1 runs (pre-etl, sub-etl) were submitted, each of them is in a
\* final state there, and a poll of main_etl has seen it final.
C1_PhaseBarrier ==
  JobsOf("final_etl") # {} =>
    /\ JobsOf("pre_etl") # {}
    /\ JobsOf("sub_etl") # {}
    /\ \A j \in Phase1Jobs : jobState[j] \in FinalStates /\ j \in observed

\* Witness of C1: v2's main_etl has submitted final-etl after a phase 1 in
\* which sub-etl crashed.
C1_Witness ==
  /\ variant = "v2"
  /\ JobsOf("final_etl") # {}
  /\ \E j \in JobsOf("sub_etl") : jobState[j] = "Crashed"

\* C2: inner barrier of sub_etl.  Whenever a cleanup run exists on the
\* backend, all NumTables table runs were submitted, each of them is in a
\* final state there, and a poll of sub_etl has seen it final.
C2_InnerBarrier ==
  JobsOf("cleanup1") \cup JobsOf("cleanup2") # {} =>
    /\ Cardinality(JobsOf("table_etl")) = NumTables
    /\ \A j \in JobsOf("table_etl") : jobState[j] \in FinalStates /\ j \in observed

\* Witness of C2: a cleanup run was submitted after table runs of which one
\* failed and one completed.
C2_Witness ==
  /\ JobsOf("cleanup2") # {}
  /\ \E i, j \in JobsOf("table_etl") :
        jobState[i] = "Failed" /\ jobState[j] = "Completed"

\* The caller's last wait() call has returned.
WaitReturned ==
  /\ calls >= 1
  /\ raised["caller"] = None
  /\ pc["caller"] \in {"idle", "submit_batch"}

\* C3: partial failure inside a batch.  When wait() (v3) has returned, the
\* dict it returned has an entry for every run id the batch held at the call,
\* every entry is a final state, and it is the state the backend holds for a
\* run that was not run again: Failed for a failed run, Completed for others.
C3_PartialFailure ==
  (variant = "v3" /\ WaitReturned) =>
    \A id \in called_with :
      /\ id \in DOMAIN returned["caller"]
      /\ returned["caller"][id] \in FinalStates
      /\ id \notin rerun => returned["caller"][id] = jobState[id]

\* Witness of C3: wait() returned a dict with a Failed and a Completed run.
C3_Witness ==
  /\ variant = "v3"
  /\ WaitReturned
  /\ \E i, j \in called_with :
        /\ {i, j} \subseteq DOMAIN returned["caller"]
        /\ returned["caller"][i] = "Failed"
        /\ returned["caller"][j] = "Completed"

\* C4 (as claimed): the status main_etl returns reports success only if every
\* flow run of the pipeline settled to Completed.
C4_StatusReflectsOutcomes ==
  status = "completed" => \A j \in JobIds : jobState[j] = "Completed"

\* C5: job-level failure is data.  Once every phase-1 run has been seen final,
\* whatever the final states, main_etl is past its barrier (or a backend call
\* of phase 2 raised); and when main_etl is done it returned its dict and
\* nothing was raised.
C5_FailureIsData ==
  /\ (Phase1Jobs # {} /\ Phase1Jobs \subseteq observed /\ JobsOf("sub_etl") # {}) =>
        \/ pc["main"] \in PastPhase1
        \/ pc["main"] = "raised" /\ raised["main"] \in QueryErrors \cup {"SubmissionError"}
  /\ pc["main"] = "done" => status # None /\ raised["main"] = None

\* Witness of C5: main_etl is done although pre-etl failed and sub-etl was
\* cancelled.
C5_Witness ==
  /\ pc["main"] = "done"
  /\ \E j \in JobsOf("pre_etl") : jobState[j] = "Failed"
  /\ \E j \in JobsOf("sub_etl") : jobState[j] = "Cancelled"

\* The overall timeout a caller would hand to wait, in poll intervals.
WaitTimeout == 1

\* C6 (as claimed): a wait does not go on past the caller's overall timeout;
\* once it has slept longer than that it has failed with WaitTimeoutError.
C6_WaitTimesOut ==
  sleeps > WaitTimeout =>
    pc["caller"] = "raised" /\ raised["caller"] = "WaitTimeoutError"

\* C7: abort on a fatal wait error.  Once an error has been raised out of a
\* wait of main_etl, main_etl has ended by that exception, has returned no
\* status, and no flow run is submitted from then on.
C7_AbortOnWaitError ==
  [][raised["main"] \in QueryErrors =>
       /\ pc["main"] = "raised" /\ pc'["main"] = "raised"
       /\ status = None /\ status' = None
       /\ jobTarget' = jobTarget]_vars

\* Witness of C7: the wait of phase 1 raised after both submissions.
C7_Witness ==
  /\ raised["main"] \in QueryErrors
  /\ Phase1Jobs # {}
  /\ JobsOf("sub_etl") # {}
  /\ JobsOf("final_etl") = {}

\* C8 (as claimed): a transient failure of one state query is never surfaced
\* to the caller of wait.
C8_TransientTolerated == raised["caller"] # "TransientQueryError"

\* C9 (as claimed): a second wait() on a batch whose run ids all have a result
\* issues no read_flow_run call and returns what the first call returned.
C9_IdempotentWait ==
  [][(variant = "v3" /\ calls >= 2 /\ cached) =>
        polls = 0 /\ returned'["caller"] = returned["caller"]]_vars

\* C10 (as claimed): a final state recorded in results is never changed by a
\* later submit or wait on the batch.
C10_TerminalImmutable ==
  [][\A id \in DOMAIN results["batch"] :
        /\ id \in DOMAIN results'["batch"]
        /\ results'["batch"][id] = results["batch"][id]]_vars

C12_VacuousWait ==
  [][(pc["caller"] = "wait_batch" /\ wpc["caller"] = "enter" /\ run_ids["batch"] = <<>>)
       => /\ pc'["caller"] = "idle"
          /\ wpc'["caller"] = "enter"
          /\ polls' = 0
          /\ sleeps' = 0
          /\ raised'["caller"] = None
          /\ DOMAIN results'["batch"] = {}
          /\ variant = "v3" => DOMAIN returned'["caller"] = {}]_vars

\* Witness of C12: a wait() on an empty batch has returned its empty dict.
C12_Witness ==
  /\ variant = "v3"
  /\ calls = 1
  /\ called_with = {}
  /\ pc["caller"] = "idle"
  /\ raised["caller"] = None
  /\ DOMAIN returned["caller"] = {}

\* C13: all-Completed wait.  A scan that begins when every pending run is
\* Completed is the last one (the wait does not sleep after it); and when
\* wait() (v3) has returned on runs that all settled to Completed, the dict it
\* returned maps each run id of the call to Completed and has no other key.
C13_AllCompleted ==
  /\ [][(settled /\ wpc["caller"] = "poll") => wpc'["caller"] # "sleep"]_vars
  /\ []((variant = "v3" /\ WaitReturned /\ AllCompleted(called_with)
           /\ called_with \cap rerun = {})
         => returned["caller"] = [id \in called_with |-> "Completed"])

\* Witness of C13: wait() returned two Completed runs after it had to sleep.
C13_Witness ==
  /\ variant = "v3"
  /\ WaitReturned
  /\ settled
  /\ sleeps >= 1
  /\ Len(run_ids["batch"]) = 2
  /\ called_with = Range(run_ids["batch"])
  /\ returned["caller"] = [id \in called_with |-> "Completed"]

\* The number of submit calls that returned a run id, over all objects.
Submissions ==
  Len(run_ids["pre_etl"]) + Len(run_ids["sub_etl"]) + Len(run_ids["final_etl"])
    + Len(run_ids["table_etl"]) + Len(run_ids["cleanup1"]) + Len(run_ids["cleanup2"])
    + Len(run_ids["batch"])

\* C18: the waiter is a pure observer.  The backend holds exactly one flow run
\* per submit call that returned, no run id is held twice, and no step taken
\* while wait() is executing creates a flow run; a run that leaves a final
\* state (it is run again) does so by a step of the backend, in which the
\* caller and its FlowSubmission do not move.
C18_PureObserver ==
  /\ [](/\ Len(jobState) = Submissions
        /\ Cardinality(Range(run_ids["batch"])) = Len(run_ids["batch"]))
  /\ [][/\ pc["caller"] = "wait_batch" =>
             jobTarget' = jobTarget /\ run_ids' = run_ids
         /\ \A j \in JobIds :
              (jobState[j] \in FinalStates /\ jobState'[j] # jobState[j]) =>
                 /\ j \in rerun' \ rerun
                 /\ <<pc, waitVars, run_ids, results>>' = <<pc, waitVars, run_ids, results>>
        ]_vars

\* Witness of C18: a wait() has recorded a Failed run and returned, and the
\* backend still holds one run per submit call.
C18_Witness ==
  /\ WaitReturned
  /\ variant = "v3"
  /\ Len(jobState) = 2
  /\ Submissions = 2
  /\ \E id \in DOMAIN results["batch"] : results["batch"][id] = "Failed"

\* C20: an unknown run id is fatal.  UnknownJobError appears only by a poll
\* of a wait; the step that raises it ends the wait and the caller with it,
\* and from then on the caller stays ended by that error: no further poll, no
\* sleep, no change of results.
C20_UnknownIdFatal ==
  [][raised'["caller"] = "UnknownJobError" =>
       /\ pc'["caller"] = "raised"
       /\ wpc'["caller"] = "enter"
       /\ results' = results
       /\ IF raised["caller"] = "UnknownJobError"
          THEN polls' = polls /\ sleeps' = sleeps /\ pc["caller"] = "raised"
          ELSE pc["caller"] = "wait_batch" /\ wpc["caller"] = "poll"]_vars

\* Witness of C20: a wait over two runs was ended by UnknownJobError after a
\* poll that succeeded.
C20_Witness ==
  /\ raised["caller"] = "UnknownJobError"
  /\ pc["caller"] = "raised"
  /\ polls >= 1
  /\ Len(run_ids["batch"]) = 2

\* The positions of sub_etl from its first wait (or first future.result()) on.
FromFirstWait ==
  (WaitPositions \cup ResultPositions
     \cup {"submit_cleanup1", "submit_cleanup2", "return", "done"})

\* C17: no local admission control.  While sub_etl is in its submit loop no
\* state of a table run has been read and the next submission can be issued
\* whatever the states of the runs submitted before; and from the first wait
\* on, all NumTables table runs have been submitted.
C17_NoLocalAdmission ==
  /\ pc["sub"] = "submit_table_etl" =>
        /\ JobsOf("table_etl") \cap observed = {}
        /\ wpc["sub"] = "enter"
        /\ ENABLED submit("sub")
  /\ pc["sub"] \in FromFirstWait => Cardinality(JobsOf("table_etl")) = NumTables

\* Witness of C17: every table run was submitted before any poll, while an
\* earlier one was already running and another had not started.
C17_Witness ==
  /\ pc["sub"] = "wait_table_etl"
  /\ wpc["sub"] = "enter"
  /\ Cardinality(JobsOf("table_etl")) = NumTables
  /\ \E i, j \in JobsOf("table_etl") :
        jobState[i] = "Running" /\ jobState[j] = "Pending"

\* C19 (as claimed): a SubmissionError costs sub_etl one table run at most;
\* it never ends sub_etl with more than one of the table runs not submitted.
C19_SubmissionErrorIsolated ==
  (pc["sub"] = "raised" /\ raised["sub"] = "SubmissionError") =>
     Cardinality(JobsOf("table_etl")) >= NumTables - 1

\* C15 (as claimed): when a setup script has run against a backend that held a
\* limit for the tag and could be reached, the limits are what they were
\* before the run, and the script reported "already exists".
C15_DuplicateLimitNoOp ==
  (setup.at = "done" /\ concurrency_tag \in DOMAIN setup.before
     /\ setup.cause # "Unavailable") =>
       /\ limits = setup.before
       /\ setup.report = "already_exists"

\* C14: wait liveness.  When no backend call raises and the backend brings
\* every run to a final state, under a limit below the number of table runs,
\* the pipeline comes to its end: no wait is in progress any more, sub_etl has
\* ended (by returning, or in prefect_flow.py by the exception of a failed
\* task's future), and main_etl has returned after both of its phases.
C14_WaitLiveness ==
  <>(/\ wpc["main"] = "enter" /\ wpc["sub"] = "enter"
     /\ pc["sub"] = "done" \/ (variant = Tasks /\ pc["sub"] = "raised")
     /\ variant = "v3" => pc["main"] = "done" /\ status = main_etl_status)

\* Witness of C14: main_etl has returned after a run in which the table runs
\* went through the limit and one of them failed.
C14_Witness ==
  /\ pc["main"] = "done"
  /\ pc["sub"] = "done"
  /\ Cardinality(DOMAIN taskState) = NumTables
  /\ Cardinality(JobsOf("final_etl")) = 1
  /\ \E j \in JobsOf("table_etl") : jobState[j] = "Failed"

\* The Running runs of the sql_query task, submitted by sub_etl or called by a
\* table flow run.
SqlQueryRunning ==
  {j \in JobIds : jobTarget[j] = task_name["table_etl"] /\ jobState[j] = "Running"}
    \cup {j \in DOMAIN taskState : taskState[j] = "Running"}

\* C16: concurrency ceiling.  With a limit declared for the tag "database",
\* the number of sql_query task runs that are Running never exceeds the
\* limit's maximum.
C16_ConcurrencyCeiling ==
  concurrency_tag \in DOMAIN limits =>
     Cardinality(SqlQueryRunning) <= limits[concurrency_tag]

\* Witness of C16: every table run was submitted, the limit is used up and a
\* sql_query task run is held back in Pending.
C16_Witness ==
  /\ Cardinality(JobsOf("table_etl")) = NumTables
  /\ Cardinality(SqlQueryRunning) = limits[concurrency_tag]
  /\ \/ \E j \in DOMAIN taskState : taskState[j] = "Pending"
     \/ variant = Tasks /\ \E j \in JobsOf("table_etl") : jobState[j] = "Pending"

\* The gathered submit() coroutines that have returned.
Returned == {g \in DOMAIN gather : gather[g].at = "returned"}

\* C21: concurrent submit keeps run_ids consistent.  Whatever the interleaving
\* of gathered submit() calls, run_ids holds one entry per call that returned,
\* namely the id that call returned, no id twice and none missing; and the
\* step by which a call returns appends the id it returns and nothing else.
C21_ConcurrentSubmit ==
  /\ [](/\ Len(run_ids["batch"]) = Cardinality(Returned)
        /\ Cardinality(Range(run_ids["batch"])) = Len(run_ids["batch"])
        /\ Range(run_ids["batch"]) = {gather[g].ret : g \in Returned}
        /\ \A g \in Returned : gather[g].ret = gather[g].id)
  /\ [][\A g \in DOMAIN gather :
          (gather[g].at = "awaiting" /\ gather'[g].at = "returned") =>
             run_ids'["batch"] = Append(run_ids["batch"], gather'[g].ret)]_vars

\* Witness of C21: two gathered calls were in flight together and returned in
\* the reverse of the order in which their runs were created.
C21_Witness ==
  /\ Cardinality(Returned) = 2
  /\ \A g \in Returned : gather[g].seen = <<>>
  /\ run_ids["batch"] = <<2, 1>>

\* The place of a run id in a list of run ids.
PositionIn(ids, id) == CHOOSE i \in DOMAIN ids : ids[i] = id

\* C22 (as claimed): within a scan the pending run ids are polled in the order
\* in which they were appended to run_ids; the id a poll reads is the earliest
\* submitted of those the scan has not polled yet.
C22_ScanOrder ==
  [][polls' = polls + 1 =>
       \A id \in scan["caller"] \ scan'["caller"] : \A other \in scan["caller"] :
          PositionIn(run_ids["batch"], id) <= PositionIn(run_ids["batch"], other)]_vars

\* The flow runs sub_etl submits: the table runs and the two cleanups.
SpawnedBySub == JobsOf("table_etl") \cup JobsOf("cleanup1") \cup JobsOf("cleanup2")

\* C23 (as claimed): transitive barrier.  Whenever a final-etl flow run exists
\* on the backend, every table run and every cleanup run that the sub_etl run
\* of the pipeline submitted is in a final state.
C23_TransitiveBarrier ==
  JobsOf("final_etl") # {} => \A j \in SpawnedBySub : jobState[j] \in FinalStates

\* The table runs whose sql_query task has failed an attempt and was retried.
RetriedRuns == {j \in JobsOf("table_etl") : Retried(j) >= 1}

\* C24: only settled states are recorded.  Every state in results is a final
\* one, and it is the state the backend holds for the run.  A table run whose
\* task is waiting for a retry, or has attempts left to run, is not final and
\* has no entry in results, and a wait that has begun to scan for it keeps it
\* in pending; the step that records it records the run's final state.
C24_OnlySettledRecorded ==
  /\ [](/\ \A id \in DOMAIN results["table_etl"] :
              /\ results["table_etl"][id] \in FinalStates
              /\ results["table_etl"][id] = jobState[id]
        /\ \A j \in DOMAIN taskState :
              ~IsFinal(taskState[j]) =>
                 /\ jobState[j] = "Running"
                 /\ j \notin DOMAIN results["table_etl"]
                 /\ (pc["sub"] = "wait_table_etl" /\ wpc["sub"] # "enter") => j \in pending["sub"])
  /\ [][\A j \in RetriedRuns :
          (j \notin DOMAIN results["table_etl"] /\ j \in DOMAIN results'["table_etl"]) =>
             /\ IsFinal(jobState[j])
             /\ results'["table_etl"][j] = jobState[j]
             /\ IsFinal(taskState[j])]_vars

\* Witness of C24: the wait slept while a task waited for its retry, and has
\* recorded one run Completed after a retry and one Failed after both retries.
C24_Witness ==
  /\ pc["sub"] \in {"submit_cleanup1", "done"}
  /\ \E i, j \in RetriedRuns :
        /\ {i, j} \subseteq DOMAIN results["table_etl"]
        /\ results["table_etl"][i] = "Completed" /\ Retried(i) = 1
        /\ results["table_etl"][j] = "Failed" /\ Retried(j) = retries

\* C25: working-set discipline.  Within a wait call a scan is over the ids
\* that are pending when it starts and polls each of them once: the ids left
\* to poll are pending ones, an id found final is among those the scan has
\* polled and leaves pending when the scan ends, and no poll is of an id the
\* call has seen final before or of an id outside pending.
C25_WorkingSet ==
  /\ [](/\ scan["caller"] \subseteq pending["caller"]
        /\ completed["caller"] \subseteq pending["caller"] \ scan["caller"]
        /\ pending["caller"] \cap observed \subseteq completed["caller"]
        /\ wpc["caller"] = "sleep" =>
              pending["caller"] \cap observed = {} /\ scan["caller"] = {})
  /\ [][/\ polls' = polls + 1 =>
             \A id \in scan["caller"] \ scan'["caller"] :
                id \in pending["caller"] /\ id \notin observed
         /\ (wpc["caller"] = "sleep" /\ wpc'["caller"] = "poll") =>
               scan'["caller"] = pending["caller"] /\ pending'["caller"] = pending["caller"]
        ]_vars

\* Witness of C25: of two runs the first scan found one final, and after one
\* sleep the second scan polled the other one only: three polls in all.
C25_Witness ==
  /\ WaitReturned
  /\ Len(run_ids["batch"]) = 2
  /\ called_with = Range(run_ids["batch"])
  /\ sleeps = 1
  /\ polls = 3

\* C26: no busy spin.  A scan in progress only shrinks: the poll that ends a
\* scan with ids still pending goes to the sleep, without a sleep counted yet,
\* and the next scan starts only from the sleep, which is then counted once;
\* the poll that empties pending returns without a sleep.  So a wait call that
\* returned made one scan more than it slept: between sleeps + 1 polls and
\* that many times the number of its ids.
C26_NoBusySpin ==
  /\ []((WaitReturned /\ called_with # {}) =>
          /\ polls >= sleeps + 1
          /\ polls <= (sleeps + 1) * Cardinality(called_with))
  /\ [][/\ (wpc["caller"] = "poll" /\ wpc'["caller"] = "poll") =>
             /\ scan'["caller"] \subseteq scan["caller"]
             /\ polls' = polls + 1 => scan'["caller"] # scan["caller"]
             /\ scan'["caller"] # {}
             /\ sleeps' = sleeps
        /\ (wpc["caller"] = "poll" /\ wpc'["caller"] = "sleep") =>
             /\ pending'["caller"] # {}
             /\ scan'["caller"] = {}
             /\ sleeps' = sleeps
        /\ (wpc["caller"] = "sleep" /\ wpc'["caller"] # "sleep") =>
             /\ wpc'["caller"] = "poll"
             /\ sleeps' = sleeps + 1
        /\ (wpc["caller"] = "poll" /\ wpc'["caller"] = "enter" /\ raised'["caller"] = None) =>
             /\ Cardinality(scan["caller"]) = 1
             /\ pending'["caller"] = {}
             /\ sleeps' = sleeps
             /\ pc'["caller"] = "idle"
       ]_vars

\* Witness of C26: a wait for one run returned after MaxSleeps sleeps and one
\* poll more than that.
C26_Witness ==
  /\ WaitReturned
  /\ Cardinality(called_with) = 1
  /\ sleeps = MaxSleeps
  /\ polls = MaxSleeps + 1

\* The positions of main_etl from the first wait of phase 1 on.
FromPhase1Wait == {"wait_pre_etl", "wait_sub_etl", "wait_phase1"} \cup PastPhase1

\* C27: fan-out before fan-in.  While main_etl is at one of the two
\* submissions of phase 1 it has begun no wait and polled nothing, and the
\* submission can be issued whatever the state of the run submitted before;
\* and from the first wait of phase 1 on, both pre-etl and sub-etl have been
\* submitted, once each.
C27_FanOutBeforeFanIn ==
  /\ pc["main"] \in {"submit_pre_etl", "submit_sub_etl"} =>
        /\ wpc["main"] = "enter"
        /\ pending["main"] = {}
        /\ observed = {}
        /\ ENABLED submit("main")
  /\ pc["main"] \in FromPhase1Wait =>
        /\ Len(run_ids["pre_etl"]) = 1
        /\ Len(run_ids["sub_etl"]) = 1
        /\ Cardinality(Phase1Jobs) = 2

\* Witness of C27: main_etl is about to begin its first wait with both runs
\* submitted, pre-etl already over and sub-etl not yet started.
C27_Witness ==
  /\ pc["main"] \in {"wait_pre_etl", "wait_phase1"}
  /\ wpc["main"] = "enter"
  /\ observed = {}
  /\ \E j \in JobsOf("pre_etl") : jobState[j] = "Completed"
  /\ \E j \in JobsOf("sub_etl") : jobState[j] = "Pending"

\* What a single wait over the ids of both phase-1 objects waits for: both
\* runs were submitted and each of them is in a final state on the backend.
UnionTerminal ==
  /\ run_ids["pre_etl"] # <<>>
  /\ run_ids["sub_etl"] # <<>>
  /\ \A id \in WaitIds("wait_phase1") : IsFinal(jobState[id])

\* The positions of the waits of phase 1, in either file.
Phase1Waits == {"wait_pre_etl", "wait_sub_etl", "wait_phase1"}

\* C28: the sequential waits refine the union wait.  In v3 as in v2, main_etl
\* leaves the waits of phase 1 for the submission of final-etl only by a step
\* taken when every id of the union is final, each of them then seen final by
\* a poll; a wait of phase 1 sleeps while the union is final only for ids that
\* settled after its scan had polled them, which the next scan finds final;
\* and once the union is final main_etl does leave phase 1.
C28_SequentialRefinesUnion ==
  /\ [][/\ (pc["main"] \in Phase1Waits /\ pc'["main"] = "submit_final_etl") =>
             /\ UnionTerminal
             /\ WaitIds("wait_phase1") \subseteq observed'
        /\ (UnionTerminal /\ pc["main"] \in Phase1Waits /\ wpc["main"] = "poll"
              /\ wpc'["main"] = "sleep") =>
             (pending'["main"] \cap observed' = {} /\ pending'["main"] # {}
                /\ \A id \in pending'["main"] : IsFinal(jobState[id]))
       ]_vars
  /\ (UnionTerminal ~> pc["main"] \in PastPhase1)

\* Witness of C28: v3's main_etl has left phase 1 after its two waits, each
\* with its result, pre-etl Failed and sub-etl Completed.
C28_Witness ==
  /\ variant = "v3"
  /\ pc["main"] = "submit_final_etl"
  /\ UnionTerminal
  /\ DOMAIN results["pre_etl"] = Range(run_ids["pre_etl"])
  /\ DOMAIN results["sub_etl"] = Range(run_ids["sub_etl"])
  /\ \E j \in JobsOf("pre_etl") : jobState[j] = "Failed"
  /\ \E j \in JobsOf("sub_etl") : jobState[j] = "Completed"

\* The caller's wait() is in progress: it has taken its copy of run_ids.
WaitInProgress == pc["caller"] = "wait_batch" /\ wpc["caller"] # "enter"

\* C29: wait works on a snapshot.  Whatever submit() calls run beside it, a
\* wait in progress polls and waits for ids that run_ids held when it was
\* called and no other; results has entries for such ids only; and the step
\* by which the wait returns leaves results with an entry for each of them.
C29_WaitSnapshot ==
  /\ [](/\ WaitInProgress =>
              /\ pending["caller"] \subseteq called_with
              /\ scan["caller"] \subseteq called_with
        /\ DOMAIN results["batch"] \subseteq called_with
        /\ observed \subseteq called_with)
  /\ [][(pc["caller"] = "wait_batch" /\ pc'["caller"] = "idle") =>
          /\ DOMAIN results'["batch"] = called_with'
          /\ DOMAIN returned'["caller"] = called_with'
          /\ called_with' \subseteq Range(run_ids'["batch"])]_vars

\* Witness of C29: a wait called with one run id has slept and is at a later
\* scan, while a submit() that resumed in between has appended a second id,
\* whose run is already over and which the wait does not have in pending.
C29_Witness ==
  /\ WaitInProgress
  /\ wpc["caller"] = "poll"
  /\ sleeps >= 1
  /\ Cardinality(called_with) = 1
  /\ \E id \in Range(run_ids["batch"]) \ called_with :
        /\ IsFinal(jobState[id])
        /\ id \notin pending["caller"]

\* The deployments the deploy step of a file registers.
Registered(file) ==
  {RegisteredName(DEPLOYMENT_CONFIGS(file)[i]) : i \in DOMAIN DEPLOYMENT_CONFIGS(file)}

\* The deploy step of the file that runs has applied all its configs.
DeployDone == Len(deployed) = Len(DEPLOYMENT_CONFIGS(variant))

\* C30: targets resolve.  In each file, every target main_etl and sub_etl
\* submit to is the "<flow name>/<deployment name>" of a deployment its deploy
\* step registers; and once the deploy step is done, every submission the
\* pipeline comes to can be issued and none has failed for an unknown target.
C30_TargetsResolve ==
  /\ \A file \in DeployFiles : \A b \in SubmittedBatches(file) :
        deployment_path[b] \in Registered(file)
  /\ DeployDone =>
        /\ Range(deployed) = Registered(variant)
        /\ \A p \in {"main", "sub"} :
              /\ raised[p] # "SubmissionError"
              /\ pc[p] \in SubmitPositions => ENABLED submit_resolves(p)

\* Witness of C30: after the deploy step the pipeline has run to its end, and
\* every target was submitted to.
C30_Witness ==
  /\ DeployDone
  /\ pc["main"] = "done"
  /\ pc["sub"] = "done"
  /\ \A b \in SubmittedBatches(variant) : JobsOf(b) # {}

\* C31 (as claimed): for each entry of DEPLOYMENT_CONFIGS the deployment_path
\* property is the name under which the deploy step has registered that
\* entry, and every deployment the orchestrators have submitted to is the
\* deployment_path of an entry.
C31_DeploymentPath ==
  /\ \A i \in DOMAIN deployed :
        DeploymentConfig_deployment_path(DEPLOYMENT_CONFIGS(variant)[i]) = deployed[i]
  /\ \A j \in JobIds :
        \E i \in DOMAIN DEPLOYMENT_CONFIGS(variant) :
           DeploymentConfig_deployment_path(DEPLOYMENT_CONFIGS(variant)[i]) = jobTarget[j]

\* C33: create_concurrency_limit of setup_concurrency_limit.py swallows only
\* the already-exists outcome of the backend's create call: it re-raises
\* exactly when the call failed for another reason, main then stops without
\* listing the limits again, and the limits on the backend are the ones
\* from before the call.
C33_OtherFailuresReraised ==
  [][ (/\ setup.script = "setup_concurrency_limit"
       /\ setup.at = "create"
       /\ setup'.at # "create")
      => /\ (setup'.cause \notin {None, "AlreadyExists"}
              => /\ setup'.report = "error"
                 /\ setup'.at = "done"
                 /\ limits' = limits)
         /\ (setup'.report = "error" => setup'.cause \notin {None, "AlreadyExists"})
         /\ (setup'.cause = "AlreadyExists"
              => setup'.report = "already_exists" /\ setup'.at = "list_again") ]_vars

\* The create call of the script failed because the backend could not be
\* reached, and the script has ended with the error.
C33_Witness ==
  /\ setup.script = "setup_concurrency_limit"
  /\ setup.at = "done"
  /\ setup.cause = "Unavailable"
  /\ setup.report = "error"

\* C32 (as claimed): when PrefectServerSetup.setup_concurrency_limit has
\* returned, it returned True if and only if the backend held a limit for
\* the configured tag at that moment, whatever another setup process did in
\* between.
C32_TrueIffLimitExists ==
  "setup_concurrency_limit" \in server.finished
     => (server.limit_returned <=> server.limit_existed)

\* C34: PrefectServerSetup.setup issues a create call for the work pool or
\* the concurrency limit only after the server was found reachable, by the
\* health check or by the wait for a native server it started; a setup that
\* ends without having found the server reachable has returned False and
\* has issued no create call.
C34_CreateOnlyWhenReachable ==
  /\ server.create_calls # {} => server.reachable
  /\ server.at \in {"pool_read", "pool_create", "limit_read", "limit_create",
                    "verify_flows", "verify_pools", "verify_limits"}
       => server.reachable
  /\ (server.at = "done" /\ ~server.reachable)
       => /\ ~server.returned
          /\ server.create_calls = {}
          /\ server.finished = {"setup"}

\* The health check failed, setup started a native server, waited until it
\* answered and has then issued both create calls.
C34_Witness ==
  /\ server.server_process = "running"
  /\ server.reachable
  /\ server.create_calls = {"work_pool", "concurrency_limit"}

\* C35 (as claimed): PrefectServerSetup.setup returns True only if
\* verify_setup has confirmed that the API answers, that the configured
\* work pool exists and that the configured concurrency limit exists.
C35_TrueMeansVerified ==
  (server.at = "done" /\ server.returned)
     => {"api", "work_pool", "concurrency_limit"} \subseteq server.confirmed

\* C36: while the worker manager is monitoring it tracks exactly the number
\* of worker processes asked for, one per worker number and all on the pool
\* asked for, and every tracked worker that has exited is eventually
\* replaced in the list by a newly started worker of the same number and
\* pool, as long as the manager goes on monitoring.
C36_TracksRequested ==
  manager.at \in Monitoring
    => /\ Len(manager.processes) = manager.workers
       /\ \A i \in DOMAIN manager.processes :
             /\ popen[manager.processes[i]].worker_id = i
             /\ popen[manager.processes[i]].pool = manager.pool
       /\ \A i, k \in DOMAIN manager.processes :
             manager.processes[i] = manager.processes[k] => i = k

C36_Replaced(i, pid) ==
  /\ i \in DOMAIN manager.processes
  /\ pid \in DOMAIN popen
  /\ manager.processes[i] > pid
  /\ popen[manager.processes[i]].worker_id = i
  /\ popen[manager.processes[i]].pool = popen[pid].pool

C36_WorkerSupervision ==
  /\ []C36_TracksRequested
  /\ \A i \in 1..MaxWorkers : \A pid \in 1..(MaxWorkers + MaxExits) :
        (/\ manager.at \in Monitoring
         /\ i \in DOMAIN manager.processes
         /\ manager.processes[i] = pid
         /\ Exited(pid))
        ~> (manager.at \notin Monitoring \/ C36_Replaced(i, pid))

\* The manager is monitoring and tracks, for worker 2, a process it started
\* in place of one that exited.
C36_Witness ==
  /\ manager.at \in Monitoring
  /\ manager.workers = 2
  /\ \E pid \in DOMAIN popen :
        /\ Exited(pid)
        /\ pid \notin Tracked
        /\ popen[pid].worker_id = 2
        /\ C36_Replaced(2, pid)
        /\ ~Exited(manager.processes[2])

\* C37: once the worker manager has been interrupted, terminate() is called
\* on every tracked worker process, every tracked process still running
\* after the grace period is killed, no worker is started any more, and when
\* the manager has exited no tracked worker process is running.
C37_HandlerStops ==
  /\ manager.interrupted => manager.at \in {"terminate", "grace", "kill", "exit_0"}
  /\ (manager.interrupted /\ manager.at \in {"grace", "kill", "exit_0"})
       => \A pid \in Tracked : popen[pid].terminate
  /\ (manager.interrupted /\ manager.at = "exit_0")
       => \A pid \in Tracked : Exited(pid)

C37_WorkerShutdown ==
  /\ []C37_HandlerStops
  /\ [][ /\ manager.interrupted => /\ Len(popen') = Len(popen)
                                   /\ manager'.processes = manager.processes
                                   /\ manager'.interrupted
         /\ (manager.at = "kill" /\ manager'.at = "exit_0")
              => \A pid \in Tracked :
                    /\ ~Exited(pid) => popen'[pid].kill
                    /\ Exited(pid) => ~popen'[pid].kill ]_vars

\* The manager was interrupted while monitoring and has exited after killing
\* a worker that was still running when the grace period was over.
C37_Witness ==
  /\ manager.interrupted
  /\ manager.at = "exit_0"
  /\ manager.workers = 2
  /\ Len(manager.processes) = 2
  /\ \E pid \in Tracked : popen[pid].kill
  /\ \E pid \in Tracked : popen[pid].terminate /\ ~popen[pid].kill

====
